---- MODULE Spec2Model ----
(***************************************************************************)
(* A model of the URL scraper agent: scraper.py (single-shot front-end,    *)
(* Publisher variant A) and objectwire/cli.py (interactive session and     *)
(* click commands, Publisher variant B).                                   *)
(*                                                                         *)
(* Text is a sequence of one-character strings, so that slices such as     *)
(* title[:60] and concatenations are computed.  An optional value (Python  *)
(* None or a value) is the empty sequence or a one-element sequence.       *)
(* A confidence is an integer number of hundredths (0.7 is 70).            *)
(***************************************************************************)
EXTENDS Integers, Sequences, FiniteSets, TLC

VARIABLES
    \* analyze applied to one input (SpecAnalyze)
    an_in, an_out,
    \* parse_rss applied to one input (SpecFeed)
    rss_in, rss_out,
    \* the extraction applied to one fetched document (SpecExtract)
    ex_in, ex_out,
    \* one call of scrape / scrape_url (SpecFetch): the function, the loop
    \* variable, the outcomes of the GETs made so far, where the call stands
    \* ("loop", "fetched", "failed") and the error it reported
    f_fn, f_attempt, f_log, f_st, f_err,
    \* the running front-end (Spec): "interactive" (cli.py interactive_mode),
    \* "scraper" (scraper.py main), "cli_scrape", "cli_post" (cli.py click
    \* commands), its command-line flags, and whether an LLM is llm_configured
    prog, flags, llm_configured,
    \* where control stands: "prompt", a blocking call ("feed", "fetch",
    \* "llm", "health", "post", "confirm", "clip_read", "clip_write",
    \* "status"), "exited" or "crashed"; and the flow that is running
    pc, flow,
    \* session state of interactive_mode
    last_event, last_rss_items,
    \* locals of the running flow: the line read (cmd), the URL at hand, the loop
    \* variable of scrape_url, the scraped page, the event of a click command
    \* and the answer given to the confirmation prompt
    cmd, v_url, v_attempt, v_data, v_event, answer,
    \* what the line at hand has done so far: collaborator calls in order,
    \* reports printed, payloads POSTed and the responses to them, the payload
    \* previewed; the session state when the line was read; the exit status
    calls, out, sent, received, preview, pre, exit_code

an_vars == <<an_in, an_out>>
rss_vars == <<rss_in, rss_out>>
ex_vars == <<ex_in, ex_out>>
f_vars == <<f_fn, f_attempt, f_log, f_st, f_err>>
s_vars == <<prog, flags, llm_configured, pc, flow, last_event, last_rss_items, cmd,
            v_url, v_attempt, v_data, v_event, answer, calls, out, sent, received, preview, pre, exit_code>>
vars == <<an_in, an_out, rss_in, rss_out, ex_in, ex_out, f_fn, f_attempt, f_log, f_st, f_err,
          prog, flags, llm_configured, pc, flow, last_event, last_rss_items, cmd,
          v_url, v_attempt, v_data, v_event, answer, calls, out, sent, received, preview, pre, exit_code>>

\* the variables of a harness that is not running
AnIdle == an_in = <<>> /\ an_out = <<>>
RssIdle == rss_in = <<>> /\ rss_out = <<>>
ExIdle == ex_in = <<>> /\ ex_out = <<>>
FetchIdle == f_fn = "" /\ f_attempt = 0 /\ f_log = <<>> /\ f_st = "" /\ f_err = <<>>
SessionIdle ==
    /\ prog = "" /\ flags = <<>> /\ llm_configured = FALSE /\ pc = "" /\ flow = ""
    /\ last_event = <<>> /\ last_rss_items = <<>> /\ cmd = <<>> /\ v_url = <<>>
    /\ v_attempt = 0 /\ v_data = <<>> /\ v_event = <<>> /\ calls = <<>> /\ out = <<>>
    /\ answer = <<>> /\ sent = <<>> /\ received = <<>> /\ preview = <<>> /\ pre = <<>> /\ exit_code = <<>>

(***************************************************************************)
(* Text helpers                                                            *)
(***************************************************************************)
Min(a, b) == IF a < b THEN a ELSE b

\* Python s[:n]
Take(s, n) == SubSeq(s, 1, Min(Len(s), n))

\* a text of n copies of the character c
Rep(c, n) == [i \in 1..n |-> c]

WILL_PREFIX == <<"W", "i", "l", "l", " ", "'">>
WILL_SUFFIX == <<"'", " ", "p", "r", "e", "d", "i", "c", "t", "i", "o", "n", "s", " ", "c", "o", "m", "e", " ", "t", "r", "u", "e", "?">>
BASED_ON == <<"B", "a", "s", "e", "d", " ", "o", "n", ":", " ">>
PREDICTION_PREFIX == <<"P", "r", "e", "d", "i", "c", "t", "i", "o", "n", ":", " ">>
QMARK == <<"?">>
GENERAL == <<"g", "e", "n", "e", "r", "a", "l">>
UNTITLED == <<"U", "n", "t", "i", "t", "l", "e", "d">>
DEFAULT_DATE == <<"2", "0", "2", "5", "-", "1", "2", "-", "3", "1", "T", "2", "3", ":", "5", "9", ":", "0", "0", "-", "0", "5", ":", "0", "0">>
EXAMPLE_DOMAIN == <<"E", "x", "a", "m", "p", "l", "e", " ", "D", "o", "m", "a", "i", "n">>
YES == <<"Y", "e", "s">>
NO == <<"N", "o">>
PARTIALLY == <<"P", "a", "r", "t", "i", "a", "l", "l", "y">>

\* program constants of the slices and the content gate
TITLE_CUT_LLM == 60
TITLE_CUT_FALLBACK == 50
DESCRIPTION_CUT == 200
MIN_CONTENT == 100
MAX_CONTENT == 5000
DEFAULT_CONFIDENCE_LLM == 70
DEFAULT_CONFIDENCE_FALLBACK == 50

(***************************************************************************)
(* JSON values, as json.loads returns them                                 *)
(***************************************************************************)
JStr(s) == [t |-> "str", s |-> s, n |-> 0, l |-> <<>>]
JNum(n) == [t |-> "num", s |-> <<>>, n |-> n, l |-> <<>>]
JBool(b) == [t |-> "bool", s |-> <<>>, n |-> IF b THEN 1 ELSE 0, l |-> <<>>]
JNull == [t |-> "null", s |-> <<>>, n |-> 0, l |-> <<>>]
JObj == [t |-> "obj", s |-> <<>>, n |-> 0, l |-> <<>>]
JList(l) == [t |-> "list", s |-> <<>>, n |-> 0, l |-> l]

(***************************************************************************)
(* The LLM's response text: a sequence of tokens.  A token is an opening   *)
(* brace, a closing brace, text that is no brace ("junk"), or one          *)
(* "key": value member of an object (a nested object is the value JObj).   *)
(***************************************************************************)
TokOpen == [c |-> "{", key |-> "", val |-> JNull]
TokClose == [c |-> "}", key |-> "", val |-> JNull]
TokJunk == [c |-> "junk", key |-> "", val |-> JNull]
TokField(k, v) == [c |-> "field", key |-> k, val |-> v]

\* str.find: the 0-based index of the first token c, or -1
find(text, c) ==
    IF \E i \in 1..Len(text) : text[i].c = c
    THEN (CHOOSE i \in 1..Len(text) :
              text[i].c = c /\ \A j \in 1..(i - 1) : text[j].c # c) - 1
    ELSE -1

\* str.rfind: the 0-based index of the last token c, or -1
rfind(text, c) ==
    IF \E i \in 1..Len(text) : text[i].c = c
    THEN (CHOOSE i \in 1..Len(text) :
              text[i].c = c /\ \A j \in (i + 1)..Len(text) : text[j].c # c) - 1
    ELSE -1

\* Python text[start:end] for 0 <= start < end <= len(text)
Slice(text, start, end) == SubSeq(text, start + 1, end)

\* json.loads of a span that starts with "{" and ends with "}": an object
\* when everything between is a member; of a repeated key the last counts
json_loads(span) ==
    LET inner == 2..(Len(span) - 1)
        ok == /\ Len(span) >= 2
              /\ span[1].c = "{"
              /\ span[Len(span)].c = "}"
              /\ \A i \in inner : span[i].c = "field"
        keys == {span[i].key : i \in inner}
        last(k) == CHOOSE i \in inner :
                       span[i].key = k /\ \A j \in inner : span[j].key = k => j <= i
    IN  IF ok THEN [ok |-> TRUE, data |-> [k \in keys |-> span[last(k)].val]]
        ELSE [ok |-> FALSE, data |-> <<>>]

\* dict.get(key, default)
get(data, k, default) == IF k \in DOMAIN data THEN data[k] ELSE default

\* float() of a string: the numeric strings of the model and their values
FloatOfStr(s) ==
    CASE s = <<"0", ".", "8">> -> <<80>>
      [] s = <<"2">> -> <<200>>
      [] OTHER -> <<>>

\* Python float(v): a number, a bool or a numeric string converts; None, a
\* list, an object raise TypeError and any other string ValueError
float(v) ==
    CASE v.t = "num" -> <<v.n>>
      [] v.t = "bool" -> <<100 * v.n>>
      [] v.t = "str" -> FloatOfStr(v.s)
      [] OTHER -> <<>>

\* pydantic's validation of a str field and of a list[str] field
IsStr(v) == v.t = "str"
IsStrList(v) == v.t = "list" /\ \A i \in 1..Len(v.l) : v.l[i].t = "str"
StrList(v) == [i \in 1..Len(v.l) |-> v.l[i].s]

(***************************************************************************)
(* The outcome of a try block: it returned an event, it raised, or control *)
(* fell out of it.                                                         *)
(***************************************************************************)
Returned(e) == [st |-> "return", ev |-> <<e>>, exc |-> ""]
Raised(x) == [st |-> "raise", ev |-> <<>>, exc |-> x]
FellThrough == [st |-> "fall", ev |-> <<>>, exc |-> ""]

\* one behaviour of the LLM call
LlmRaises == [kind |-> "raise", text |-> <<>>]
LlmNoContent == [kind |-> "none", text |-> <<>>]
LlmText(text) == [kind |-> "text", text |-> text]

(***************************************************************************)
(* URLs and scraped pages                                                  *)
(***************************************************************************)
\* a URL text: its scheme prefix ("https://", "http://", or another), its
\* host, and the number of the feed entry it is the link of (0: none)
Url(scheme, host, item) == [scheme |-> scheme, host |-> host, item |-> item]

\* the dict scrape / scrape_url return
ScrapedPage(title, content, url) ==
    [title |-> title, content |-> content, url |-> url, domain |-> url.host]

(***************************************************************************)
(* PredictionEvent: pydantic builds the model or raises ValidationError    *)
(***************************************************************************)
\* cli.py's model: no resolution_date field
PredictionEvent_cli(title, description, category, options, confidence, source_url) ==
    IF IsStr(title) /\ IsStr(description) /\ IsStr(category) /\ IsStrList(options)
    THEN Returned([title |-> title.s, description |-> description.s,
                   category |-> category.s, options |-> StrList(options),
                   confidence |-> confidence, source_url |-> source_url])
    ELSE Raised("ValidationError")

\* scraper.py's model: resolution_date is a required str
PredictionEvent_scraper(title, description, category, options, confidence, source_url, resolution_date) ==
    IF /\ IsStr(title) /\ IsStr(description) /\ IsStr(category)
       /\ IsStrList(options) /\ IsStr(resolution_date)
    THEN Returned([title |-> title.s, description |-> description.s,
                   category |-> category.s, options |-> StrList(options),
                   confidence |-> confidence, source_url |-> source_url,
                   resolution_date |-> resolution_date.s])
    ELSE Raised("ValidationError")

(***************************************************************************)
(* analyze                                                                 *)
(***************************************************************************)
\* the fallback event of cli.py
fallback_cli(scraped) ==
    PredictionEvent_cli(
        JStr(WILL_PREFIX \o Take(scraped.title, TITLE_CUT_FALLBACK) \o WILL_SUFFIX),
        JStr(BASED_ON \o scraped.title),
        JStr(GENERAL),
        JList(<<JStr(YES), JStr(NO), JStr(PARTIALLY)>>),
        DEFAULT_CONFIDENCE_FALLBACK,
        scraped.url)

\* the fallback event of scraper.py
fallback_scraper(scraped) ==
    PredictionEvent_scraper(
        JStr(WILL_PREFIX \o Take(scraped.title, TITLE_CUT_FALLBACK) \o WILL_SUFFIX),
        JStr(BASED_ON \o scraped.title),
        JStr(GENERAL),
        JList(<<JStr(YES), JStr(NO), JStr(PARTIALLY)>>),
        DEFAULT_CONFIDENCE_FALLBACK,
        scraped.url,
        JStr(DEFAULT_DATE))

\* the body of cli.py's try block, from the LLM call to the return
llm_try_cli(scraped, llm) ==
    IF llm.kind = "raise" THEN Raised("APIError")
    ELSE IF llm.kind = "none" THEN Raised("AttributeError")
    ELSE
      LET text == llm.text
          start == find(text, "{")
          end == rfind(text, "}") + 1
      IN  IF start >= 0 /\ end > start
          THEN LET r == json_loads(Slice(text, start, end))
                   data == r.data
                   conf == float(get(data, "confidence", JNum(DEFAULT_CONFIDENCE_LLM)))
               IN  IF ~r.ok THEN Raised("JSONDecodeError")
                   ELSE IF conf = <<>> THEN Raised("TypeError")
                   ELSE PredictionEvent_cli(
                          get(data, "title",
                              JStr(PREDICTION_PREFIX \o Take(scraped.title, TITLE_CUT_LLM) \o QMARK)),
                          get(data, "description",
                              JStr(Take(scraped.content, DESCRIPTION_CUT))),
                          get(data, "category", JStr(GENERAL)),
                          get(data, "options", JList(<<JStr(YES), JStr(NO)>>)),
                          conf[1],
                          scraped.url)
          ELSE FellThrough

\* the body of scraper.py's try block
llm_try_scraper(scraped, llm) ==
    IF llm.kind = "raise" THEN Raised("APIError")
    ELSE IF llm.kind = "none" THEN Raised("AttributeError")
    ELSE
      LET text == llm.text
          start == find(text, "{")
          end == rfind(text, "}") + 1
      IN  IF start >= 0 /\ end > start
          THEN LET r == json_loads(Slice(text, start, end))
                   data == r.data
                   conf == float(get(data, "confidence", JNum(DEFAULT_CONFIDENCE_LLM)))
               IN  IF ~r.ok THEN Raised("JSONDecodeError")
                   ELSE IF conf = <<>> THEN Raised("TypeError")
                   ELSE PredictionEvent_scraper(
                          get(data, "title",
                              JStr(PREDICTION_PREFIX \o Take(scraped.title, TITLE_CUT_LLM) \o QMARK)),
                          get(data, "description",
                              JStr(Take(scraped.content, DESCRIPTION_CUT))),
                          get(data, "category", JStr(GENERAL)),
                          get(data, "options", JList(<<JStr(YES), JStr(NO)>>)),
                          conf[1],
                          scraped.url,
                          get(data, "resolution_date", JStr(DEFAULT_DATE)))
          ELSE FellThrough

\* mutant: the handler catches only json.JSONDecodeError
except_JSONDecodeError(outcome) ==
    IF outcome.st = "raise" /\ outcome.exc = "JSONDecodeError" THEN FellThrough
    ELSE outcome

\* "except Exception": every exception of the try block is swallowed and
\* control falls out of the try statement
except_Exception(outcome) ==
    IF outcome.st = "raise" THEN FellThrough ELSE outcome

\* mutant: the LLM path is taken whether or not a key is configured
analyze_cli_always_llm(scraped, configured, llm) ==
    LET t == except_Exception(llm_try_cli(scraped, llm))
    IN  IF t.st = "fall" THEN fallback_cli(scraped) ELSE t

\* cli.py analyze: the LLM path when configured, else or after it the fallback
analyze_cli(scraped, configured, llm) ==
    LET t == IF configured THEN except_Exception(llm_try_cli(scraped, llm))
             ELSE FellThrough
    IN  IF t.st = "fall" THEN fallback_cli(scraped) ELSE t

\* scraper.py analyze
analyze_scraper(scraped, configured, llm) ==
    LET t == IF configured THEN except_Exception(llm_try_scraper(scraped, llm))
             ELSE FellThrough
    IN  IF t.st = "fall" THEN fallback_scraper(scraped) ELSE t

(***************************************************************************)
(* Inputs of analyze: pages that passed the content gate, and behaviours   *)
(* of the LLM call                                                         *)
(***************************************************************************)
\* how far past a slice length the titles and contents of the inputs reach
ExtraLen == 1

Letter(i) == <<"a", "b", "c", "d", "e", "f", "g">>[(i % 7) + 1]
Digit(i) == <<"0", "1", "2", "3", "4", "5", "6", "7", "8", "9">>[(i % 10) + 1]

\* a title and a content of n characters, no two neighbours alike
TitleOf(n) == [i \in 1..n |-> Letter(i)]
ContentOf(n) == [i \in 1..n |-> Digit(i)]

AnTitles ==
    {<<>>, UNTITLED, EXAMPLE_DOMAIN}
        \cup {TitleOf(n) : n \in (TITLE_CUT_FALLBACK - 1)..(TITLE_CUT_FALLBACK + ExtraLen)}
        \cup {TitleOf(n) : n \in (TITLE_CUT_LLM - 1)..(TITLE_CUT_LLM + ExtraLen)}

AnContents ==
    {ContentOf(n) : n \in {MIN_CONTENT} \cup
                          (DESCRIPTION_CUT - 1)..(DESCRIPTION_CUT + ExtraLen)}

PageUrl == Url("https://", "news.example", 0)

AnPages == {ScrapedPage(t, c, PageUrl) : t \in AnTitles, c \in AnContents}

\* the six fields the prompt asks for, each with a well-typed value
FieldKeys == <<"title", "description", "category", "options", "confidence",
               "resolution_date">>

GoodValue(k) ==
    CASE k = "title" -> JStr(<<"Q", "?">>)
      [] k = "description" -> JStr(<<"D">>)
      [] k = "category" -> JStr(<<"t", "e", "c", "h">>)
      [] k = "options" -> JList(<<JStr(<<"A">>), JStr(<<"B">>)>>)
      [] k = "confidence" -> JNum(90)
      [] k = "resolution_date" -> JStr(<<"2", "0", "3", "0">>)

\* other values a response may give a field
OddValues(k) ==
    CASE k = "options" ->
             {JNull, JStr(YES), JList(<<>>), JList(<<JStr(YES)>>),
              JList(<<JStr(YES), JNum(1)>>),
              JList(<<JStr(YES), JStr(NO), JStr(PARTIALLY), JStr(<<"X">>)>>)}
      [] k = "confidence" ->
             {JNull, JNum(150), JNum(-10), JNum(0), JNum(100), JBool(TRUE),
              JStr(<<"0", ".", "8">>), JStr(<<"2">>), JStr(<<"h", "i">>),
              JList(<<>>), JObj}
      [] OTHER -> {JNull, JNum(7), JStr(<<>>), JList(<<JStr(YES)>>), JObj}

\* the members of an object holding the keys S, in the prompt's order
Members(S) ==
    LET In(i) == FieldKeys[i] \in S
        idx == SelectSeq([i \in 1..Len(FieldKeys) |-> i], In)
    IN  [j \in 1..Len(idx) |-> TokField(FieldKeys[idx[j]], GoodValue(FieldKeys[idx[j]]))]

AllKeys == {FieldKeys[i] : i \in 1..Len(FieldKeys)}

Object(members) == <<TokOpen>> \o members \o <<TokClose>>

\* all six fields, the field k holding v
WithValue(k, v) ==
    [j \in 1..Len(FieldKeys) |->
        TokField(FieldKeys[j], IF FieldKeys[j] = k THEN v ELSE GoodValue(FieldKeys[j]))]

AnTexts ==
    \* no object at all, or braces that enclose nothing parseable
    {<<>>, <<TokJunk>>, <<TokOpen>>, <<TokClose>>, <<TokClose, TokOpen>>,
     <<TokOpen, TokJunk, TokClose>>, <<TokOpen, TokOpen, TokClose>>}
    \* an object with any subset of the fields
    \cup {Object(Members(S)) : S \in SUBSET AllKeys}
    \* prose around the object, a second object, a stray brace after it
    \cup {<<TokJunk>> \o Object(Members(AllKeys)) \o <<TokJunk>>,
          Object(Members(AllKeys)) \o <<TokJunk>> \o Object(Members({"title"})),
          Object(Members(AllKeys)) \o <<TokJunk, TokClose>>}
    \* a member the prompt did not ask for, and a repeated key
    \cup {Object(Members({"title"}) \o <<TokField("extra", JNum(1))>>),
          Object(<<TokField("title", JNull)>> \o Members({"title"})),
          Object(Members({"title"}) \o <<TokField("title", JNull)>>)}
    \* a field of another type or value
    \cup UNION {{Object(WithValue(k, v)) : v \in OddValues(k)} : k \in AllKeys}

AnLlm == {LlmRaises, LlmNoContent} \cup {LlmText(t) : t \in AnTexts}

(***************************************************************************)
(* SpecAnalyze: analyze applied to every input                             *)
(***************************************************************************)
AnInit ==
    /\ an_in \in [scraped : AnPages, configured : BOOLEAN, llm : AnLlm]
    /\ an_out = <<>>
    /\ RssIdle
    /\ ExIdle
    /\ FetchIdle
    /\ SessionIdle

\* cli.py analyze is called on the input
AnalyzeCli ==
    /\ an_out = <<>>
    /\ an_out' = <<[fn |-> "cli",
                    res |-> analyze_cli(an_in.scraped, an_in.configured, an_in.llm)]>>
    /\ UNCHANGED <<an_in, rss_vars, ex_vars, f_vars, s_vars>>

\* scraper.py analyze is called on the input
AnalyzeScraper ==
    /\ an_out = <<>>
    /\ an_out' = <<[fn |-> "scraper",
                    res |-> analyze_scraper(an_in.scraped, an_in.configured, an_in.llm)]>>
    /\ UNCHANGED <<an_in, rss_vars, ex_vars, f_vars, s_vars>>

AnNext == AnalyzeCli \/ AnalyzeScraper

SpecAnalyze == AnInit /\ [][AnNext]_vars

(***************************************************************************)
(* The Fetcher: the retry loop of scrape (scraper.py) and scrape_url        *)
(* (cli.py)                                                                *)
(***************************************************************************)
\* range(3)
MAX_ATTEMPTS == 3

\* the outcome of one requests.get: an exception of requests.exceptions, or
\* a response with a status
GetRaised(x) == [exc |-> x, status |-> 0]
GetStatus(n) == [exc |-> "", status |-> n]

\* r.raise_for_status() raises HTTPError for a 4xx or 5xx status only
raise_for_status(o) == 400 <= o.status /\ o.status < 600

\* the try block of one attempt raised a RequestException
attempt_raises(o) == o.exc # "" \/ raise_for_status(o)

\* mutant: the handler gives up one attempt early
gives_up_early(attempt) == attempt = 1

\* "if attempt == 2": the handler gives up
gives_up(attempt) == attempt = 2

\* one iteration of the loop: "break" on a response that does not raise,
\* "return" (of None) from the handler of the last attempt, else "sleep" and
\* the next iteration
attempt_step(attempt, o) ==
    IF attempt_raises(o)
    THEN IF gives_up(attempt) THEN "return" ELSE "sleep"
    ELSE "break"

\* what the handler reports when it gives up: scraper.py prints the
\* exception to stderr, cli.py prints nothing
reported_error(fn, o) == IF fn = "scrape" THEN <<o>> ELSE <<>>

\* the outcomes a GET may have
Statuses == {200, 204, 304, 404, 500}
GetOutcomes ==
    {GetRaised(x) : x \in {"ConnectionError", "Timeout"}}
        \cup {GetStatus(n) : n \in Statuses}

FetchInit ==
    /\ f_fn \in {"scrape", "scrape_url"}
    /\ f_attempt = 0
    /\ f_log = <<>>
    /\ f_st = "loop"
    /\ f_err = <<>>
    /\ AnIdle
    /\ RssIdle
    /\ ExIdle
    /\ SessionIdle

\* one iteration of the loop "for attempt in range(3)"
FetchAttempt ==
    /\ f_st = "loop"
    /\ f_attempt < MAX_ATTEMPTS
    /\ \E o \in GetOutcomes :
          LET step == attempt_step(f_attempt, o)
          IN  /\ f_log' = Append(f_log, o)
              /\ f_st' = CASE step = "break" -> "fetched"
                           [] step = "return" -> "failed"
                           [] OTHER -> "loop"
              /\ f_attempt' = IF step = "sleep" THEN f_attempt + 1 ELSE f_attempt
              /\ f_err' = IF step = "return" THEN reported_error(f_fn, o) ELSE f_err
    /\ UNCHANGED <<f_fn, an_vars, rss_vars, ex_vars, s_vars>>

FetchNext == FetchAttempt

SpecFetch == FetchInit /\ [][FetchNext]_vars

(***************************************************************************)
(* The Extractor: the rest of scrape / scrape_url, after the loop          *)
(***************************************************************************)
\* Optional.get: the value, or the default
oget(o, default) == IF o = <<>> THEN default ELSE o[1]

\* a parsed document after the noise elements are decomposed: its title
\* text and the visible text of its article, main and body elements, each
\* optional (the element may not exist)
Doc(title, article, main, body) ==
    [title |-> title, article |-> article, main |-> main, body |-> body]

\* mutant: main is looked for before article
preferred_main_first(doc) ==
    IF doc.main # <<>> THEN doc.main
    ELSE IF doc.article # <<>> THEN doc.article
    ELSE doc.body

\* soup.find('article') or soup.find('main') or soup.body
preferred(doc) ==
    IF doc.article # <<>> THEN doc.article
    ELSE IF doc.main # <<>> THEN doc.main
    ELSE doc.body

\* main.get_text("\n", strip=True)[:5000] if main else ""
content_of(doc) ==
    IF preferred(doc) # <<>> THEN Take(preferred(doc)[1], MAX_CONTENT) ELSE <<>>

\* mutant: the gate lets a page of 99 characters through
too_short_off_by_one(content) == Len(content) < MIN_CONTENT - 1

\* "if len(content) < 100: return None"
too_short(content) == Len(content) < MIN_CONTENT

\* the page scrape / scrape_url return for a fetched document, or None
extract(doc, u) ==
    IF too_short(content_of(doc)) THEN <<>>
    ELSE <<ScrapedPage(oget(doc.title, UNTITLED), content_of(doc), u)>>

(***************************************************************************)
(* SpecExtract: the extraction applied to every input                      *)
(***************************************************************************)
\* the visible text of an element: none, one character short of the gate,
\* at the gate, at the cut, past the cut
ElementTexts(c) ==
    {Rep(c, n) : n \in {0, MIN_CONTENT - 1, MIN_CONTENT, MAX_CONTENT, MAX_CONTENT + ExtraLen}}

\* an element that is not there, or one with a text
Elements(c) == {<<>>} \cup {<<t>> : t \in ElementTexts(c)}

ExDocs ==
    {Doc(t, a, m, b) : t \in {<<>>, <<EXAMPLE_DOMAIN>>},
                       a \in Elements("a"), m \in Elements("m"), b \in Elements("b")}

ExInit ==
    /\ ex_in \in [doc : ExDocs, url : {Url("https://", "news.example", 0)}]
    /\ ex_out = <<>>
    /\ AnIdle
    /\ RssIdle
    /\ FetchIdle
    /\ SessionIdle

\* the rest of scrape / scrape_url runs on the fetched document
Extract ==
    /\ ex_in # <<>>
    /\ ex_out = <<>>
    /\ ex_out' = <<[res |-> extract(ex_in.doc, ex_in.url)]>>
    /\ UNCHANGED <<ex_in, an_vars, rss_vars, f_vars, s_vars>>

ExNext == Extract

SpecExtract == ExInit /\ [][ExNext]_vars

(***************************************************************************)
(* The Feed Reader: parse_rss                                              *)
(***************************************************************************)
NoUrl == Url("", "", 0)
UNKNOWN_FEED == <<"U", "n", "k", "n", "o", "w", "n", " ", "F", "e", "e", "d">>
SUMMARY_CUT == 200

\* what feedparser.parse gives: it raises, or a result with the bozo flag,
\* the feed's own title and link and the entries; every field of an entry
\* is optional
FeedRaises ==
    [raises |-> TRUE, bozo |-> FALSE, feed |-> [title |-> <<>>, link |-> <<>>],
     entries |-> <<>>]
Parsed(bozo, entries) ==
    [raises |-> FALSE, bozo |-> bozo,
     feed |-> [title |-> <<>>, link |-> <<>>], entries |-> entries]
Entry(title, link, summary, description, published) ==
    [title |-> title, link |-> link, summary |-> summary,
     description |-> description, published |-> published]

\* the dict built for one entry
\* mutant: the summary is kept whole
feed_item_uncut(e) ==
    [title |-> oget(e.title, UNTITLED), link |-> oget(e.link, NoUrl),
     summary |-> oget(e.summary, oget(e.description, <<>>)),
     published |-> oget(e.published, <<>>)]

feed_item(e) ==
    [title |-> oget(e.title, UNTITLED),
     link |-> oget(e.link, NoUrl),
     summary |-> Take(oget(e.summary, oget(e.description, <<>>)), SUMMARY_CUT),
     published |-> oget(e.published, <<>>)]

\* a summary or description that is no string: slicing it raises TypeError
NOT_A_STRING == <<"None">>

\* entry.get("summary", entry.get("description", ""))[:200] raises
mapping_raises(e) == oget(e.summary, oget(e.description, <<>>)) = NOT_A_STRING

\* mutant: the malformed-document flag alone rejects
rejects_any_bozo(parsed) == parsed.bozo

\* "if feed.bozo and not feed.entries"
rejects(parsed) == parsed.bozo /\ parsed.entries = <<>>

\* parse_rss: None when the parse raises, or sets bozo and has no entries,
\* or the mapping of an entry raises
parse_rss(parsed, u) ==
    IF parsed.raises THEN <<>>
    ELSE IF rejects(parsed) THEN <<>>
    ELSE IF \E i \in DOMAIN parsed.entries : mapping_raises(parsed.entries[i]) THEN <<>>
    ELSE <<[title |-> oget(parsed.feed.title, UNKNOWN_FEED),
            link |-> oget(parsed.feed.link, u),
            items |-> [i \in 1..Len(parsed.entries) |-> feed_item(parsed.entries[i])]]>>

(***************************************************************************)
(* SpecFeed: parse_rss applied to every input                              *)
(***************************************************************************)
\* how many entries the feeds of the inputs have at most
MaxEntries == 2

FeedUrl == Url("https://", "feed.example", 0)

\* an entry with every field, its summary one character past the cut; one
\* with no field; one with a description only; one whose summary, and one
\* whose description, is no string
RssEntries ==
    {Entry(<<<<"t">>>>, <<Url("https://", "feed.example", 1)>>,
           <<ContentOf(SUMMARY_CUT + ExtraLen)>>, <<<<"d">>>>, <<<<"p">>>>),
     Entry(<<>>, <<>>, <<>>, <<>>, <<>>),
     Entry(<<>>, <<>>, <<>>, <<ContentOf(SUMMARY_CUT)>>, <<>>),
     Entry(<<<<"t">>>>, <<>>, <<NOT_A_STRING>>, <<<<"d">>>>, <<>>),
     Entry(<<<<"t">>>>, <<>>, <<>>, <<NOT_A_STRING>>, <<>>)}

RssEntrySeqs == UNION {[1..n -> RssEntries] : n \in 0..MaxEntries}

\* the feed's own title and link are there or not
WithFeedInfo(parsed) ==
    [parsed EXCEPT !.feed = [title |-> <<<<"F">>>>, link |-> <<Url("https://", "home.example", 0)>>]]

RssInputs ==
    {FeedRaises}
        \cup {Parsed(b, es) : b \in BOOLEAN, es \in RssEntrySeqs}
        \cup {WithFeedInfo(Parsed(b, es)) : b \in BOOLEAN, es \in RssEntrySeqs}

RssInit ==
    /\ rss_in \in [parsed : RssInputs, url : {FeedUrl}]
    /\ rss_out = <<>>
    /\ AnIdle
    /\ ExIdle
    /\ FetchIdle
    /\ SessionIdle

\* parse_rss is called on the input
RssParse ==
    /\ rss_in # <<>>
    /\ rss_out = <<>>
    /\ rss_out' = <<[res |-> parse_rss(rss_in.parsed, rss_in.url)]>>
    /\ UNCHANGED <<rss_in, an_vars, ex_vars, f_vars, s_vars>>

RssNext == RssParse

SpecFeed == RssInit /\ [][RssNext]_vars

(***************************************************************************)
(* Input lines of the interactive session: cmd.split() as tokens           *)
(***************************************************************************)
\* a token is a word, a decimal integer (digits, with a minus sign when
\* negative), or a URL text
W(w) == [k |-> "word", w |-> w, n |-> 0, u |-> NoUrl]
N(n) == [k |-> "num", w |-> "", n |-> n, u |-> NoUrl]
U(u) == [k |-> "url", w |-> "", n |-> 0, u |-> u]

\* str.lower on the words of the model
lower(w) ==
    CASE w = "EXIT" -> "exit"
      [] w = "Q" -> "q"
      [] w = "Post" -> "post"
      [] w = "JSON" -> "json"
      [] w = "YES" -> "yes"
      [] w = "Y" -> "y"
      [] OTHER -> w

\* action = parts[0].lower(); digits and URL texts are no keywords
action(parts) == IF parts[1].k = "word" THEN lower(parts[1].w) ELSE parts[1].k

\* action.isdigit(): digits only, a sign is no digit
isdigit(parts) == parts[1].k = "num" /\ parts[1].n >= 0

\* args = " ".join(parts[1:]); "not args"
no_args(parts) == Len(parts) = 1

\* word in args.lower()
in_args(word, parts) ==
    \E i \in 2..Len(parts) : parts[i].k = "word" /\ lower(parts[i].w) = word

\* the argument of scrape / rss as a URL text; a word is a text with no scheme
arg_url(parts) ==
    IF parts[2].k = "url" THEN parts[2].u ELSE Url("", parts[2].w, 0)

HTTP_PREFIXES == {"http://", "https://"}

\* text.startswith(("http://", "https://"))
startswith_http(u) == u.scheme \in HTTP_PREFIXES

\* cmd.startswith(("http://", "https://")): cmd is stripped, so it starts
\* with its first token
cmd_startswith_http(parts) == parts[1].k = "url" /\ startswith_http(parts[1].u)

(***************************************************************************)
(* The Publisher: post_to_blockchain                                       *)
(***************************************************************************)
AGENT_DOMAIN == "objectwire-agent"

\* mutant: the preview names the page's host as the source domain
preview_payload_with_host(e) ==
    [source |-> [domain |-> e.source_url.host, url |-> e.source_url],
     event |-> [title |-> e.title, description |-> e.description,
                category |-> e.category, options |-> e.options,
                confidence |-> e.confidence, source_url |-> e.source_url]]

\* the payload dict the post flow, scrape --post and post_command build to
\* show the operator
preview_payload(e) ==
    [source |-> [domain |-> AGENT_DOMAIN, url |-> e.source_url],
     event |-> [title |-> e.title, description |-> e.description,
                category |-> e.category, options |-> e.options,
                confidence |-> e.confidence, source_url |-> e.source_url]]

\* mutant: the payload carries two options at most
payload_cli_two_options(e) ==
    [source |-> [domain |-> AGENT_DOMAIN, url |-> e.source_url],
     event |-> [title |-> e.title, description |-> e.description,
                category |-> e.category, options |-> Take(e.options, 2),
                confidence |-> e.confidence, source_url |-> e.source_url]]

\* variant B (cli.py): a fixed domain, the event's six fields
payload_cli(e) ==
    [source |-> [domain |-> AGENT_DOMAIN, url |-> e.source_url],
     event |-> [title |-> e.title, description |-> e.description,
                category |-> e.category, options |-> e.options,
                confidence |-> e.confidence, source_url |-> e.source_url]]

\* event.model_dump() of scraper.py's model: a dict of its seven fields
model_dump(e) ==
    [title |-> e.title, description |-> e.description, category |-> e.category,
     options |-> e.options, confidence |-> e.confidence, source_url |-> e.source_url,
     resolution_date |-> e.resolution_date]

\* variant A (scraper.py): the source's host, event.model_dump()
payload_scraper(e) ==
    [source |-> [domain |-> e.source_url.host, url |-> e.source_url],
     event |-> model_dump(e)]

\* the JSON object of a response: its id, market_id and event_id members,
\* each optional, and whether it has other members
Body(id, market_id, event_id, other) ==
    [id |-> id, market_id |-> market_id, event_id |-> event_id, other |-> other]

\* the outcome of one request to the API
ApiRaised(x) == [exc |-> x, status |-> 0, body |-> Body(<<>>, <<>>, <<>>, FALSE)]
ApiResponse(n, body) == [exc |-> "", status |-> n, body |-> body]

\* Python truth of an optional number: None and 0 are false
truthy(v) == v # <<>> /\ v[1] # 0

\* Python truth of the dict
nonempty(body) ==
    body.id # <<>> \/ body.market_id # <<>> \/ body.event_id # <<>> \/ body.other

\* result.get('id') or result.get('market_id') or result.get('event_id')
event_id_of(body) ==
    IF truthy(body.id) THEN body.id
    ELSE IF truthy(body.market_id) THEN body.market_id
    ELSE body.event_id

\* cli.py post_to_blockchain: resp.json(), or None when the request raised
\* or raise_for_status did
post_result_cli(o) ==
    IF o.exc # "" \/ raise_for_status(o) THEN <<>> ELSE <<o.body>>

\* "if result:" on what post_to_blockchain returned
posted(result) == result # <<>> /\ nonempty(result[1])

(***************************************************************************)
(* The state of a run as one record, and the steps of a flow as functions  *)
(* on it                                                                   *)
(***************************************************************************)
Cur ==
    [pc |-> pc, flow |-> flow, last_event |-> last_event,
     last_rss_items |-> last_rss_items, cmd |-> cmd, v_url |-> v_url,
     v_attempt |-> v_attempt, v_data |-> v_data, v_event |-> v_event,
     answer |-> answer, calls |-> calls, out |-> out, sent |-> sent,
     received |-> received, preview |-> preview, pre |-> pre, exit_code |-> exit_code]

Become(st) ==
    /\ pc' = st.pc
    /\ flow' = st.flow
    /\ last_event' = st.last_event
    /\ last_rss_items' = st.last_rss_items
    /\ cmd' = st.cmd
    /\ v_url' = st.v_url
    /\ v_attempt' = st.v_attempt
    /\ v_data' = st.v_data
    /\ v_event' = st.v_event
    /\ answer' = st.answer
    /\ calls' = st.calls
    /\ out' = st.out
    /\ sent' = st.sent
    /\ received' = st.received
    /\ preview' = st.preview
    /\ pre' = st.pre
    /\ exit_code' = st.exit_code
    /\ UNCHANGED <<prog, flags, llm_configured, an_vars, rss_vars, ex_vars, f_vars>>

\* a collaborator is called: op on the URL u (n: a number that goes with it)
Call(st, op, u, n) ==
    [st EXCEPT !.calls = Append(@, [op |-> op, url |-> u, n |-> n])]

\* a report is printed
Say(st, tag, n) == [st EXCEPT !.out = Append(@, [tag |-> tag, n |-> n])]

\* "continue", or the end of the loop body: back to session.prompt; the
\* locals of the flow are dead there
Prompt(st) ==
    [st EXCEPT !.pc = "prompt", !.v_url = <<>>, !.v_attempt = 0, !.v_data = <<>>]

\* the process ends with an exit status
Exit(st, code) ==
    [st EXCEPT !.pc = "exited", !.exit_code = <<code>>, !.v_url = <<>>,
               !.v_attempt = 0, !.v_data = <<>>]

\* an exception no handler catches ends the process with a traceback
Crash(st, exc) ==
    [Say(st, exc, 0) EXCEPT !.pc = "crashed", !.exit_code = <<1>>, !.v_url = <<>>,
                            !.v_attempt = 0, !.v_data = <<>>]

\* a line was read at the prompt and the flow f takes it
Read(parts, f) ==
    [Cur EXCEPT !.cmd = parts, !.flow = f, !.calls = <<>>, !.out = <<>>,
                !.sent = <<>>, !.received = <<>>, !.preview = <<>>, !.answer = <<>>,
                !.pre = <<[last_event |-> last_event,
                           last_rss_items |-> last_rss_items]>>]

\* scrape_url(u) is called: the loop starts
StartFetch(st, u) == [st EXCEPT !.pc = "fetch", !.v_url = <<u>>, !.v_attempt = 0]

(***************************************************************************)
(* The world of a run: what the network, the LLM, the clipboard and the    *)
(* operator may do                                                         *)
(***************************************************************************)
\* how many entries a feed has past a cap
ExtraEntries == 1

\* feed["items"][:15] of the rss command, feed["items"][:3] of a bare URL
RSS_CAP == 15
BARE_CAP == 3

HttpUrl == Url("http://", "news.example", 0)
FtpUrl == Url("ftp://", "news.example", 0)

\* the link of the i-th entry of a feed
ItemUrl(i) == Url("https://", "items.example", i)

EntryAt(i) == Entry(<<<<Letter(i)>>>>, <<ItemUrl(i)>>, <<>>, <<<<"s">>>>, <<>>)
Entries(n) == [i \in 1..n |-> EntryAt(i)]

FeedSizes == {1, BARE_CAP + ExtraEntries, RSS_CAP + ExtraEntries}

\* what feedparser.parse may give for a URL
SessFeeds ==
    {FeedRaises, Parsed(TRUE, <<>>), Parsed(FALSE, <<>>), Parsed(TRUE, Entries(1))}
        \cup {Parsed(FALSE, Entries(n)) : n \in FeedSizes}

\* documents a GET may fetch: no body at all, a body one character short of
\* the gate, a body at the gate, a short article in a long body
SessDocs ==
    {Doc(<<>>, <<>>, <<>>, <<>>),
     Doc(<<<<"T">>>>, <<>>, <<>>, <<ContentOf(MIN_CONTENT - 1)>>),
     Doc(<<<<"T">>>>, <<>>, <<>>, <<ContentOf(MIN_CONTENT)>>),
     Doc(<<<<"T">>>>, <<ContentOf(MIN_CONTENT - 1)>>, <<>>, <<ContentOf(MIN_CONTENT)>>)}

NoDoc == Doc(<<>>, <<>>, <<>>, <<>>)

\* the outcome of one GET of a page: requests raises for a URL that is not
\* http(s); otherwise it may raise, or fetch a document
PageRaised(x) == [exc |-> x, status |-> 0, doc |-> NoDoc]
PageFetched(doc) == [exc |-> "", status |-> 200, doc |-> doc]
SessGets(u) ==
    IF startswith_http(u)
    THEN {PageRaised("ConnectionError")} \cup {PageFetched(d) : d \in SessDocs}
    ELSE {PageRaised("InvalidSchema")}

SessLlm == {LlmRaises, LlmText(Object(Members(AllKeys)))}

NoBody == Body(<<>>, <<>>, <<>>, FALSE)
\* the objects a successful POST may answer with: no id at all, one of the
\* three, all three, and an id of 0
SessBodies ==
    {NoBody, Body(<<7>>, <<>>, <<>>, FALSE), Body(<<>>, <<8>>, <<>>, TRUE),
     Body(<<>>, <<>>, <<9>>, FALSE), Body(<<7>>, <<8>>, <<9>>, FALSE),
     Body(<<0>>, <<8>>, <<9>>, FALSE)}
SessPosts ==
    {ApiRaised("ConnectionError"), ApiResponse(500, NoBody)}
        \cup {ApiResponse(200, b) : b \in SessBodies}
SessHealth ==
    {ApiRaised("ConnectionError"), ApiResponse(503, NoBody), ApiResponse(204, NoBody),
     ApiResponse(200, NoBody)}

\* what Get-Clipboard gives, stripped: None when it fails, else a text
SessClips == {<<>>, <<W("")>>, <<W("hello")>>, <<U(PageUrl)>>}

\* answers to "Post to blockchain? (y/n):"
Answers == {"y", "yes", "Y", "YES", " y ", "n", "", "exit", "yes please"}

\* the numbers typed at the prompt
Picks == {-1, 0, 1, BARE_CAP, BARE_CAP + 1, RSS_CAP, RSS_CAP + 1}

\* the lines typed at the prompt, split
Lines ==
    {<<W(w)>> : w \in {"exit", "quit", "q", "EXIT", "help", "status", "scrape",
                       "rss", "post", "Post", "copy", "c", "paste", "v", "pv",
                       "hello"}}
        \cup {<<W("scrape"), U(PageUrl)>>, <<W("scrape"), W("hello")>>,
              <<W("rss"), U(PageUrl)>>, <<W("copy"), W("xml")>>,
              <<W("post"), W("hello")>>,
              <<U(PageUrl)>>, <<U(HttpUrl)>>, <<U(FtpUrl)>>}
        \cup {<<N(k)>> : k \in Picks}
        \cup {<<N(1), W("json")>>, <<N(1), W("xml")>>, <<N(1), W("JSON"), W("xml")>>,
              <<N(RSS_CAP), W("json")>>}

\* command-line flags of the single-shot front-ends
Flags(post, json, xml, yes) == [post |-> post, json |-> json, xml |-> xml, yes |-> yes]
ScraperFlags == {Flags(p, j, FALSE, FALSE) : p \in BOOLEAN, j \in BOOLEAN}
CliScrapeFlags ==
    {Flags(p, j, x, y) : p \in BOOLEAN, j \in BOOLEAN, x \in BOOLEAN, y \in BOOLEAN}
CliPostFlags == {Flags(TRUE, j, x, y) : j \in BOOLEAN, x \in BOOLEAN, y \in BOOLEAN}

\* the URL argument of a single-shot run
ArgUrls == {PageUrl, FtpUrl}

(***************************************************************************)
(* Spec: a run of one front-end                                            *)
(***************************************************************************)
Init ==
    /\ prog \in {"interactive", "scraper", "cli_scrape", "cli_post"}
    /\ flags \in CASE prog = "interactive" -> {Flags(FALSE, FALSE, FALSE, FALSE)}
                   [] prog = "scraper" -> ScraperFlags
                   [] prog = "cli_scrape" -> CliScrapeFlags
                   [] prog = "cli_post" -> CliPostFlags
    /\ llm_configured \in BOOLEAN
    /\ pc = IF prog = "interactive" THEN "prompt" ELSE "start"
    /\ flow = IF prog = "interactive" THEN "" ELSE prog
    /\ last_event = <<>>
    /\ last_rss_items = <<>>
    /\ cmd = <<>>
    /\ v_url \in IF prog = "interactive" THEN {<<>>} ELSE {<<u>> : u \in ArgUrls}
    /\ v_attempt = 0
    /\ v_data = <<>>
    /\ v_event = <<>>
    /\ answer = <<>>
    /\ calls = <<>>
    /\ out = <<>>
    /\ sent = <<>>
    /\ received = <<>>
    /\ preview = <<>>
    /\ pre = <<>>
    /\ exit_code = <<>>
    /\ AnIdle
    /\ RssIdle
    /\ ExIdle
    /\ FetchIdle

\* the if/elif chain of the loop body: which flow takes the line
command(parts) ==
    IF action(parts) \in {"exit", "quit", "q"} THEN "exit"
    ELSE IF action(parts) = "help" THEN "help"
    ELSE IF action(parts) = "status" THEN "status"
    ELSE IF action(parts) = "scrape" THEN "scrape"
    ELSE IF action(parts) = "rss" THEN "rss"
    ELSE IF action(parts) = "post" THEN "post"
    ELSE IF action(parts) \in {"copy", "c"} THEN "copy"
    ELSE IF action(parts) \in {"paste", "v", "pv"} THEN "paste"
    ELSE IF cmd_startswith_http(parts) THEN "bare"
    ELSE "unknown"

\* "1 <= article_num <= len(last_rss_items)"
in_range(parts, items) == 1 <= parts[1].n /\ parts[1].n <= Len(items)

\* mutant: the else branch of the range test is missing, a number out of
\* range goes down the chain
dispatch_without_range_error(parts, items) ==
    IF isdigit(parts) /\ items # <<>> /\ in_range(parts, items) THEN "select"
    ELSE command(parts)

\* "if action.isdigit() and last_rss_items" comes before the chain
\* mutant: a number is a selection whether or not a listing is stored
dispatch_number_always_selects(parts, items) ==
    IF isdigit(parts) THEN "select" ELSE command(parts)

dispatch(parts, items) ==
    IF isdigit(parts) /\ items # <<>> THEN "select" ELSE command(parts)

\* the prompt of the interactive session took the line parts for the flow f
Takes(parts, f) ==
    /\ prog = "interactive"
    /\ pc = "prompt"
    /\ parts # <<>>
    /\ dispatch(parts, last_rss_items) = f

(***************************************************************************)
(* What a flow does between two blocking calls                             *)
(***************************************************************************)
\* the number printed for an optional id; None prints as None
shown(v) == IF v = <<>> THEN -1 ELSE v[1]

\* the event a flow holds: last_event in the session, event in a command
event_at_hand(st) == IF st.flow \in {"cli_scrape", "cli_post", "scraper"} THEN st.v_event[1] ELSE st.last_event[1]

\* the end of a flow: the prompt again, or the end of the process
Done(st, code) == IF prog = "interactive" THEN Prompt(st) ELSE Exit(st, code)

\* mutant: every variant checks /health first
StartPost_with_health(st) == [st EXCEPT !.pc = "health"]

\* post_to_blockchain(event) is called
StartPost(st) == [st EXCEPT !.pc = IF st.flow = "scraper" THEN "health" ELSE "post"]

\* the payload is previewed and the operator is asked, unless --yes
PreviewAndAsk(st) ==
    LET st1 == Say([st EXCEPT !.preview = <<preview_payload(event_at_hand(st))>>], "preview", 0)
    IN  IF flags.yes THEN StartPost(st1) ELSE [st1 EXCEPT !.pc = "confirm"]

\* the output of scraper.py main, after the optional post
scraper_output(st, market_id) ==
    LET st1 == IF flags.post /\ ~truthy(market_id) THEN Say(st, "failed_to_post", 0) ELSE st
        st2 == Say(st1, IF flags.json THEN "json" ELSE "text", 0)
    IN  Exit(IF truthy(market_id) THEN Say(st2, "market_id", market_id[1]) ELSE st2, 0)

\* mutant: every flow posts the event it synthesized
after_analyze_always_posts(st, e) ==
    StartPost(Say([st EXCEPT !.last_event = <<e>>, !.v_event = <<e>>], "panel", 0))

\* analyze returned the event e: what each flow does with it
after_analyze(st, e) ==
    CASE st.flow = "select" ->
             LET st1 == [st EXCEPT !.last_event = <<e>>]
                 json == IF in_args("json", st.cmd) THEN Say(st1, "json", 0) ELSE st1
                 xml == IF in_args("xml", st.cmd) THEN Say(json, "xml", 0) ELSE json
             IN  IF in_args("json", st.cmd) \/ in_args("xml", st.cmd)
                 THEN Prompt(Say(xml, "tip", 0))
                 ELSE IF "resolution_date" \in DOMAIN e
                      THEN Prompt(Say(Say(st1, "panel", 0), "tip", 0))
                      ELSE Crash(st1, "AttributeError")
      [] st.flow \in {"scrape", "bare", "paste"} ->
             StartPost(Say([st EXCEPT !.last_event = <<e>>], "panel", 0))
      [] st.flow = "cli_scrape" ->
             LET st1 == [st EXCEPT !.v_event = <<e>>]
             IN  IF flags.post THEN PreviewAndAsk(st1)
                 ELSE IF flags.xml THEN Exit(Say(st1, "xml", 0), 0)
                 ELSE IF flags.json THEN Exit(Say(st1, "json", 0), 0)
                 ELSE StartPost(Say(st1, "panel", 0))
      [] st.flow = "cli_post" -> PreviewAndAsk([st EXCEPT !.v_event = <<e>>])
      [] st.flow = "scraper" ->
             LET st1 == [st EXCEPT !.v_event = <<e>>]
             IN  IF flags.post THEN StartPost(st1) ELSE scraper_output(st1, <<>>)

\* analyze(data) is called; it calls the LLM only when one is configured
start_analyze(st, page) ==
    LET st1 == Call([st EXCEPT !.v_data = <<page>>], "analyze", page.url, Len(page.content))
        res == IF st.flow = "scraper" THEN analyze_scraper(page, FALSE, LlmRaises)
               ELSE analyze_cli(page, FALSE, LlmRaises)
    IN  IF llm_configured THEN [st1 EXCEPT !.pc = "llm"]
        ELSE IF res.st = "return" THEN after_analyze(st1, res.ev[1])
        ELSE Crash(st1, res.exc)

\* the report of a failed scrape
scrape_failure(f) ==
    CASE f = "select" -> "failed_scrape_article"
      [] f = "bare" -> "failed_parse_url_not_rss"
      [] f = "paste" -> "failed_parse_url"
      [] OTHER -> "failed_scrape_url"

\* mutant: a failed scrape forgets the event held
after_scrape_forgets_event(st, r) ==
    IF r = <<>>
    THEN IF st.flow = "scraper" THEN Exit(st, 1)
         ELSE Done(Say([st EXCEPT !.last_event = <<>>], scrape_failure(st.flow), 0), 1)
    ELSE start_analyze(st, r[1])

\* scrape_url / scrape returned r: "if not data"
after_scrape(st, r) ==
    IF r = <<>>
    THEN IF st.flow = "scraper" THEN Exit(st, 1)
         ELSE Done(Say(st, scrape_failure(st.flow), 0), 1)
    ELSE start_analyze(st, r[1])

\* mutant: the auto-post is reported as done whatever it returned
report_auto_post_always_posted(st, result) == Say(st, "posted", 0)

\* the report of the auto-post of scrape, paste and a bare URL
report_auto_post(st, result) ==
    IF posted(result)
    THEN IF truthy(event_id_of(result[1]))
         THEN Say(Say(st, "posted", 0), "event_id", event_id_of(result[1])[1])
         ELSE Say(st, "posted", 0)
    ELSE Say(st, "could_not_post", 0)

\* the report of a post the operator asked for
report_post(st, result) ==
    IF posted(result) THEN Say(st, "posted_id", shown(event_id_of(result[1])))
    ELSE Say(st, "failed_post", 0)

\* mutant: the event is kept only when it was posted
after_post_keeps_posted_only(st, result) ==
    Done(report_auto_post(IF posted(result) THEN st ELSE [st EXCEPT !.last_event = <<>>],
                          result), 0)

\* post_to_blockchain of cli.py returned result
after_post(st, result) ==
    CASE st.flow \in {"scrape", "bare", "paste"} -> Prompt(report_auto_post(st, result))
      [] st.flow = "post" -> Prompt(report_post(st, result))
      [] st.flow = "cli_scrape" ->
             IF flags.post THEN Exit(report_post(st, result), 0)
             ELSE Exit(report_auto_post(st, result), 0)
      [] st.flow = "cli_post" ->
             IF flags.xml \/ flags.json
             THEN Exit(Say(st, IF posted(result) THEN "status_posted" ELSE "status_failed", 0), 0)
             ELSE IF posted(result)
                  THEN Exit(Say(st, "posted_id", shown(event_id_of(result[1]))), 0)
                  ELSE Exit(Say(st, "failed_post", 0), 1)

(***************************************************************************)
(* The interactive session: one line is read at the prompt                 *)
(***************************************************************************)
\* "if not cmd: continue"
EmptyLine ==
    /\ prog = "interactive" /\ pc = "prompt"
    /\ Become(Prompt(Read(<<>>, "empty")))

\* Ctrl-D at the prompt: EOFError, goodbye
PromptEOF ==
    /\ prog = "interactive" /\ pc = "prompt"
    /\ Become(Exit(Say(Read(<<>>, "eof"), "goodbye", 0), 0))

\* Ctrl-C at the prompt: KeyboardInterrupt, continue
PromptInterrupt ==
    /\ prog = "interactive" /\ pc = "prompt"
    /\ Become(Prompt(Read(<<>>, "interrupt")))

\* mutant: last_rss_items[article_num - 2], which wraps to the last item
selected_item_off_by_one(parts, items) ==
    IF parts[1].n = 1 THEN items[Len(items)] ELSE items[parts[1].n - 1]

\* item = last_rss_items[article_num - 1]
selected_item(parts, items) == items[parts[1].n]

\* a number within 1..len(last_rss_items): the article is scraped
SelectArticle ==
    \E parts \in Lines :
        /\ Takes(parts, "select")
        /\ in_range(parts, last_rss_items)
        /\ Become(StartFetch(Say(Read(parts, "select"), "scraping_article", parts[1].n),
                             selected_item(parts, last_rss_items).link))

\* a number outside the range
SelectOutOfRange ==
    \E parts \in Lines :
        /\ Takes(parts, "select")
        /\ ~in_range(parts, last_rss_items)
        /\ Become(Prompt(Say(Read(parts, "select"), "invalid_article_number",
                             Len(last_rss_items))))

ExitCmd ==
    \E parts \in Lines :
        /\ Takes(parts, "exit")
        /\ Become(Exit(Say(Read(parts, "exit"), "goodbye", 0), 0))

HelpCmd ==
    \E parts \in Lines :
        /\ Takes(parts, "help")
        /\ Become(Prompt(Say(Read(parts, "help"), "help", 0)))

StatusCmd ==
    \E parts \in Lines :
        /\ Takes(parts, "status")
        /\ Become([Read(parts, "status") EXCEPT !.pc = "status"])

ScrapeCmd ==
    \E parts \in Lines :
        /\ Takes(parts, "scrape")
        /\ Become(IF no_args(parts)
                  THEN Prompt(Say(Read(parts, "scrape"), "usage_scrape", 0))
                  ELSE StartFetch(Read(parts, "scrape"), arg_url(parts)))

RssCmd ==
    \E parts \in Lines :
        /\ Takes(parts, "rss")
        /\ Become(IF no_args(parts)
                  THEN Prompt(Say(Read(parts, "rss"), "usage_rss", 0))
                  ELSE [Read(parts, "rss") EXCEPT !.pc = "feed", !.v_url = <<arg_url(parts)>>])

PostCmd ==
    \E parts \in Lines :
        /\ Takes(parts, "post")
        /\ Become(IF last_event = <<>>
                  THEN Prompt(Say(Read(parts, "post"), "no_event_to_post", 0))
                  ELSE [Say([Read(parts, "post") EXCEPT
                                 !.preview = <<preview_payload(last_event[1])>>],
                            "preview", 0)
                           EXCEPT !.pc = "confirm"])

\* mutant: copy does not look at last_event
nothing_to_copy_unchecked(ev) == FALSE

\* "if not last_event" of copy
nothing_to_copy(ev) == ev = <<>>

CopyCmd ==
    \E parts \in Lines :
        /\ Takes(parts, "copy")
        /\ Become(IF nothing_to_copy(last_event)
                  THEN Prompt(Say(Read(parts, "copy"), "no_event_to_copy", 0))
                  ELSE [Read(parts, "copy") EXCEPT !.pc = "clip_write"])

PasteCmd ==
    \E parts \in Lines :
        /\ Takes(parts, "paste")
        /\ Become([Read(parts, "paste") EXCEPT !.pc = "clip_read"])

\* a line that is no command and starts with http:// or https://
BareUrl ==
    \E parts \in Lines :
        /\ Takes(parts, "bare")
        /\ Become([Read(parts, "bare") EXCEPT !.pc = "feed", !.v_url = <<parts[1].u>>])

UnknownCmd ==
    \E parts \in Lines :
        /\ Takes(parts, "unknown")
        /\ Become(Prompt(Say(Read(parts, "unknown"), "unknown_command", 0)))

(***************************************************************************)
(* Blocking calls return                                                   *)
(***************************************************************************)
\* a single-shot front-end starts: scrape(args.url) / scrape_url(url)
Start ==
    /\ pc = "start"
    /\ Become(StartFetch(Cur, v_url[1]))

\* mutant: a new listing starts the session afresh
store_feed_and_drop_event(st, items) ==
    [st EXCEPT !.last_rss_items = items, !.last_event = <<>>]

\* last_rss_items = feed["items"][:n]
store_feed(st, items) == [st EXCEPT !.last_rss_items = items]

\* mutant: the last n items are kept, not the first
listed_from_the_end(feed, n) ==
    SubSeq(feed[1].items, Len(feed[1].items) - Min(Len(feed[1].items), n) + 1, Len(feed[1].items))

\* mutant: the listing is stored whole
listed_whole(feed, n) == feed[1].items

\* feed["items"][:n]
listed(feed, n) == Take(feed[1].items, n)

\* mutant: a feed with no items counts as a feed
is_feed_without_items(feed) == feed # <<>>

\* "if feed and feed.get("items")"
is_feed(feed) == feed # <<>> /\ feed[1].items # <<>>

\* parse_rss(url) returns to rss, a bare URL or paste
FeedParse ==
    /\ pc = "feed"
    /\ \E parsed \in SessFeeds :
        LET feed == parse_rss(parsed, v_url[1])
            st == Call(Cur, "feed", v_url[1], IF feed = <<>> THEN -1 ELSE Len(feed[1].items))
        IN  Become(
              CASE flow = "rss" ->
                       IF feed = <<>> THEN Prompt(Say(st, "failed_parse_rss", 0))
                       ELSE Prompt(Say(store_feed(st, listed(feed, RSS_CAP)),
                                       "feed_table", Len(listed(feed, RSS_CAP))))
                [] flow = "bare" ->
                       IF is_feed(feed)
                       THEN Prompt(Say(store_feed(st, listed(feed, BARE_CAP)),
                                       "feed_detected", Len(listed(feed, BARE_CAP))))
                       ELSE StartFetch(st, v_url[1])
                [] flow = "paste" ->
                       IF is_feed(feed)
                       THEN Prompt(Say(st, "feed_detected", Len(listed(feed, BARE_CAP))))
                       ELSE StartFetch(st, v_url[1]))

\* one iteration of the loop of scrape / scrape_url and, when it breaks, the
\* extraction that follows
ScrapeAttempt ==
    /\ pc = "fetch"
    /\ \E o \in SessGets(v_url[1]) :
        LET st == Call(Cur, "get", v_url[1], v_attempt)
            step == attempt_step(v_attempt, o)
            fn == IF flow = "scraper" THEN "scrape" ELSE "scrape_url"
        IN  Become(
              CASE step = "sleep" -> [st EXCEPT !.v_attempt = v_attempt + 1]
                [] step = "return" ->
                       after_scrape(IF reported_error(fn, o) # <<>>
                                    THEN Say(st, "scrape_failed", 0) ELSE st, <<>>)
                [] step = "break" ->
                       LET st1 == Call(st, "extract", v_url[1], Len(content_of(o.doc)))
                           r == extract(o.doc, v_url[1])
                       IN  after_scrape(IF r = <<>> /\ fn = "scrape"
                                        THEN Say(st1, "content_too_short", 0) ELSE st1, r))

\* the LLM call of analyze returns or raises
LlmCall ==
    /\ pc = "llm"
    /\ \E llm \in SessLlm :
        LET st == Call(Cur, "llm", v_url[1], 0)
            res == IF flow = "scraper" THEN analyze_scraper(v_data[1], TRUE, llm)
                   ELSE analyze_cli(v_data[1], TRUE, llm)
        IN  Become(IF res.st = "return" THEN after_analyze(st, res.ev[1])
                   ELSE Crash(st, res.exc))

\* mutant: any 2xx status counts as healthy
unhealthy_unless_2xx(o) == ~(200 <= o.status /\ o.status < 300)

\* "if health.status_code != 200"
unhealthy(o) == o.status # 200

\* GET /health of Publisher variant A (scraper.py); the call is logged with
\* the status it returned, -1 when it raised
HealthCheck ==
    /\ pc = "health"
    /\ \E o \in SessHealth :
        LET st == Call(Cur, "health", NoUrl, IF o.exc # "" THEN -1 ELSE o.status)
        IN  Become(IF o.exc # "" THEN scraper_output(Say(st, "blockchain_error", 0), <<>>)
                   ELSE IF unhealthy(o)
                        THEN scraper_output(Say(st, "not_healthy", o.status), <<>>)
                        ELSE [st EXCEPT !.pc = "post"])

\* POST /ai/events returns or raises
PostRequest ==
    /\ pc = "post"
    /\ \E o \in SessPosts :
        LET e == event_at_hand(Cur)
            payload == IF flow = "scraper" THEN payload_scraper(e) ELSE payload_cli(e)
            st == [Call(Cur, "post", e.source_url, 0) EXCEPT
                      !.sent = Append(@, payload), !.received = Append(@, o)]
            failed == o.exc # "" \/ raise_for_status(o)
            st1 == IF failed THEN Say(st, "blockchain_error", 0) ELSE st
        IN  Become(IF flow = "scraper"
                   THEN scraper_output(st1, IF failed THEN <<>> ELSE event_id_of(o.body))
                   ELSE after_post(st1, post_result_cli(o)))

\* str.strip on the answers of the model
strip(w) == IF w = " y " THEN "y" ELSE w

\* mutant: confirm.startswith("y")
confirmed_by_first_letter(ans) == lower(strip(ans)) \in {"y", "yes", "yes please"}

\* confirm = session.prompt(...).strip().lower(); confirm in ("y", "yes")
confirmed(ans) == lower(strip(ans)) \in {"y", "yes"}

\* the operator answers the confirmation prompt of the interactive post
ConfirmAnswer ==
    /\ prog = "interactive" /\ pc = "confirm"
    /\ \E ans \in Answers :
        LET st == [Call(Cur, "confirm", NoUrl, 0) EXCEPT !.answer = <<ans>>]
        IN  Become(IF confirmed(ans) THEN StartPost(st)
                   ELSE Prompt(Say(st, "cancelled", 0)))

\* Ctrl-D at the confirmation prompt: EOFError, goodbye
ConfirmEOF ==
    /\ prog = "interactive" /\ pc = "confirm"
    /\ Become(Exit(Say(Call(Cur, "confirm", NoUrl, 0), "goodbye", 0), 0))

\* click.confirm(default=False) asks again until the answer is y, yes, n, no
\* or empty
click_accepts(ans) == lower(strip(ans)) \in {"y", "yes", "n", "no", ""}

ClickConfirm ==
    /\ prog # "interactive" /\ pc = "confirm"
    /\ \E ans \in Answers :
        /\ click_accepts(ans)
        /\ LET st == [Call(Cur, "confirm", NoUrl, 0) EXCEPT !.answer = <<ans>>]
           IN  Become(IF lower(strip(ans)) \in {"y", "yes"} THEN StartPost(st)
                      ELSE Exit(Say(st, "cancelled", 0), 0))

\* Ctrl-C or Ctrl-D at click.confirm: click.Abort, exit status 1
ClickAbort ==
    /\ prog # "interactive" /\ pc = "confirm"
    /\ Become(Exit(Say(Call(Cur, "confirm", NoUrl, 0), "aborted", 0), 1))

\* paste_from_clipboard() returns to paste
ClipRead ==
    /\ pc = "clip_read"
    /\ \E clip \in SessClips :
        LET st == Call(Cur, "clip_read", NoUrl, 0)
        IN  Become(IF clip = <<>> \/ clip[1] = W("")
                   THEN Prompt(Say(st, "clipboard_empty", 0))
                   ELSE IF clip[1].k = "url" /\ startswith_http(clip[1].u)
                        THEN [Say(st, "pasted", 0) EXCEPT !.pc = "feed", !.v_url = <<clip[1].u>>]
                        ELSE Prompt(Say(st, "not_a_url", 0)))

\* fmt = args.lower() if args else "json"; fmt == "xml"
copies_xml(parts) == Len(parts) = 2 /\ in_args("xml", parts)

\* copy_to_clipboard(text) returns to copy
ClipWrite ==
    /\ pc = "clip_write"
    /\ \E ok \in BOOLEAN :
        LET st == Call(Cur, "clip_write", NoUrl, IF copies_xml(cmd) THEN 1 ELSE 0)
        IN  Become(Prompt(Say(st, IF ok THEN "copied" ELSE "failed_copy", 0)))

\* show_status: the GET of /health returns, raises or is interrupted; the
\* bare except takes all of them
StatusHealth ==
    /\ pc = "status"
    /\ \E o \in SessHealth \cup {ApiRaised("KeyboardInterrupt")} :
        LET st == Call(Cur, "health", NoUrl, 0)
        IN  Become(Prompt(Say(st, "status_table",
                              IF o.exc # "" THEN 0 ELSE o.status)))

\* Ctrl-C while a flow of the session waits: KeyboardInterrupt, continue
Interrupt ==
    /\ prog = "interactive"
    /\ pc \in {"feed", "fetch", "llm", "post", "confirm", "clip_read", "clip_write"}
    /\ Become(Prompt(Call(Cur, "KeyboardInterrupt", NoUrl, 0)))

Next ==
    \/ EmptyLine \/ PromptEOF \/ PromptInterrupt
    \/ SelectArticle \/ SelectOutOfRange
    \/ ExitCmd \/ HelpCmd \/ StatusCmd \/ ScrapeCmd \/ RssCmd \/ PostCmd
    \/ CopyCmd \/ PasteCmd \/ BareUrl \/ UnknownCmd
    \/ Start \/ FeedParse \/ ScrapeAttempt \/ LlmCall \/ HealthCheck \/ PostRequest
    \/ ConfirmAnswer \/ ConfirmEOF \/ ClickConfirm \/ ClickAbort
    \/ ClipRead \/ ClipWrite \/ StatusHealth \/ Interrupt

Spec == Init /\ [][Next]_vars

(***************************************************************************)
(* Claims about the Fetcher (SpecFetch)                                    *)
(***************************************************************************)
Is2xx(o) == o.exc = "" /\ 200 <= o.status /\ o.status < 300

\* a failure as the claim counts it: an exception or any non-2xx status
FailsAsClaimed(o) == ~Is2xx(o)

\* a failure as requests counts it: an exception or a 4xx/5xx status
FailsAsRaised(o) == o.exc # "" \/ (o.status >= 400 /\ o.status <= 599)

AllOf(log, Failing(_)) == \A i \in 1..Len(log) : Failing(log[i])

DocumentedFallback(scraped, fn) ==
    LET base == [title |-> WILL_PREFIX \o Take(scraped.title, 50) \o WILL_SUFFIX,
                 description |-> BASED_ON \o scraped.title,
                 category |-> GENERAL,
                 options |-> <<YES, NO, PARTIALLY>>,
                 confidence |-> 50,
                 source_url |-> scraped.url]
    IN  IF fn = "scraper"
        THEN [k \in DOMAIN base \cup {"resolution_date"} |->
                 IF k = "resolution_date" THEN DEFAULT_DATE ELSE base[k]]
        ELSE base

\* the positions of the first "{" and of the last "}" of a text (0: none)
FirstOpen(text) ==
    IF \E i \in 1..Len(text) : text[i].c = "{"
    THEN CHOOSE i \in 1..Len(text) :
             text[i].c = "{" /\ \A j \in 1..(i - 1) : text[j].c # "{"
    ELSE 0
LastClose(text) ==
    IF \E i \in 1..Len(text) : text[i].c = "}"
    THEN CHOOSE i \in 1..Len(text) :
             text[i].c = "}" /\ \A j \in (i + 1)..Len(text) : text[j].c # "}"
    ELSE 0

\* the response holds no JSON object: no "{", no "}" after the first "{", or
\* something other than members between them
NoObject(text) ==
    \/ FirstOpen(text) = 0
    \/ LastClose(text) < FirstOpen(text)
    \/ \E i \in (FirstOpen(text) + 1)..(LastClose(text) - 1) : text[i].c # "field"

\* the object's value of key k is of another type than ty
WrongType(text, k, ty) ==
    /\ ~NoObject(text)
    /\ \E i \in 1..Len(text) :
          /\ text[i].c = "field" /\ text[i].key = k /\ text[i].val.t # ty
          /\ \A j \in (i + 1)..Len(text) : text[j].key # k

\* the behaviours of the LLM path that the claim lists as failures
LlmPathFails(in) ==
    \/ ~in.configured
    \/ in.llm.kind # "text"
    \/ NoObject(in.llm.text)
    \/ WrongType(in.llm.text, "title", "str")
    \/ WrongType(in.llm.text, "description", "str")
    \/ WrongType(in.llm.text, "category", "str")
    \/ WrongType(in.llm.text, "options", "list")

\* C2: analyze is total: on every page and every behaviour of the LLM path
\* it returns a PredictionEvent and raises nothing, and when the LLM path is
\* not configured or fails the event is the fallback event
C2_AnalyzeTotal ==
    \A i \in 1..Len(an_out) :
        /\ an_out[i].res.st = "return"
        /\ Len(an_out[i].res.ev) = 1
        /\ LlmPathFails(an_in) =>
               an_out[i].res.ev[1] = DocumentedFallback(an_in.scraped, an_out[i].fn)

\* a configured LLM answered with malformed JSON and analyze returned the
\* fallback event
C2_Witness ==
    /\ an_out # <<>>
    /\ an_in.configured
    /\ an_in.llm = LlmText(<<TokOpen, TokJunk, TokClose>>)
    /\ an_out[1].res.st = "return"
    /\ an_out[1].res.ev[1].options = <<YES, NO, PARTIALLY>>

\* C5: every event analyze produces has at least two options
C5_OptionsAtLeastTwo ==
    \A i \in 1..Len(an_out) :
        an_out[i].res.st = "return" => Len(an_out[i].res.ev[1].options) >= 2

\* the default section 4.4 documents for a field the response lacks
DocumentedDefault(scraped, k) ==
    CASE k = "title" -> PREDICTION_PREFIX \o Take(scraped.title, 60) \o QMARK
      [] k = "description" -> Take(scraped.content, 200)
      [] k = "category" -> GENERAL
      [] k = "options" -> <<YES, NO>>
      [] k = "confidence" -> 70
      [] k = "resolution_date" -> DEFAULT_DATE

\* the value a well-typed response gives field k, as the event holds it
ResponseValue(k) ==
    CASE k = "title" -> <<"Q", "?">>
      [] k = "description" -> <<"D">>
      [] k = "category" -> <<"t", "e", "c", "h">>
      [] k = "options" -> <<<<"A">>, <<"B">>>>
      [] k = "confidence" -> 90
      [] k = "resolution_date" -> <<"2", "0", "3", "0">>

\* the fields S of a well-typed response are in the event ev and the other
\* fields among K hold their defaults
FieldsFromResponseOrDefault(ev, scraped, S, K) ==
    \A k \in K :
        /\ k \in DOMAIN ev
        /\ ev[k] = IF k \in S THEN ResponseValue(k) ELSE DocumentedDefault(scraped, k)

\* C6: when the LLM's JSON object lacks any subset of the six fields, the
\* event holds each lacking field's documented default and every present
\* field's value from the response, and no field is absent
C6_MissingFieldsDefaulted ==
    \A i \in 1..Len(an_out) : \A S \in SUBSET AllKeys :
        (an_in.configured /\ an_in.llm = LlmText(Object(Members(S)))) =>
            /\ an_out[i].res.st = "return"
            /\ FieldsFromResponseOrDefault(an_out[i].res.ev[1], an_in.scraped, S, AllKeys)

(***************************************************************************)
(* Claims about a run of a front-end (Spec)                                *)
(***************************************************************************)
\* the calls of the line at hand that satisfy P, and the last report
CallsWhere(P(_)) == {i \in DOMAIN calls : P(calls[i])}
LastSaid == IF out = <<>> THEN "" ELSE out[Len(out)].tag
Interrupted == calls # <<>> /\ calls[Len(calls)].op = "KeyboardInterrupt"
IsPipelineCall(c) == c.op \in {"get", "extract", "analyze", "llm"}
IsSynthesis(c) == c.op \in {"analyze", "llm"}
IsPublish(c) == c.op \in {"health", "post"}

\* C3: in the interactive session every line other than exit/quit/q brings
\* the controller back to the prompt: no flow crashes the loop.  The session
\* ends only by saying goodbye (exit, quit, q, or the end of input).
C3_EveryLineReturnsToIdle ==
    prog = "interactive" =>
        /\ pc # "crashed"
        /\ pc = "exited" => LastSaid = "goodbye"

\* C4: a fetched page whose extracted content has fewer than 100 characters
\* is rejected, and in every flow of both front-ends neither the Synthesizer
\* nor the Publisher is invoked for it: the short extraction is the last
\* call of its line, no page is held, nothing was sent, and the flow is over.
C4_ShortContentNeverSynthesized ==
    \A i \in DOMAIN calls :
        (calls[i].op = "extract" /\ calls[i].n < 100) =>
            /\ i = Len(calls)
            /\ v_data = <<>>
            /\ sent = <<>>
            /\ CallsWhere(IsSynthesis) = {} /\ CallsWhere(IsPublish) = {}
            /\ pc \in {"prompt", "exited"}
            /\ prog # "interactive" => exit_code = <<1>>
            /\ prog = "interactive" =>
                   LastSaid \in {"failed_scrape_article", "failed_scrape_url",
                                 "failed_parse_url", "failed_parse_url_not_rss"}

\* scraper.py --post fetched a page of 99 characters and exited with status 1
C4_Witness ==
    /\ prog = "scraper" /\ flags.post
    /\ pc = "exited" /\ exit_code = <<1>>
    /\ calls # <<>>
    /\ calls[Len(calls)].op = "extract" /\ calls[Len(calls)].n = 99

\* the line at hand is a bare URL beginning with http:// or https://
BareLine ==
    /\ prog = "interactive" /\ Len(cmd) = 1 /\ cmd[1].k = "url"
    /\ cmd[1].u.scheme \in {"http://", "https://"}

\* C7: for a bare line beginning with http:// or https://, (a) if the Feed
\* Reader returns a feed with at least one item the controller stores the
\* feed's leading items and calls nothing else; (b) if the Feed Reader
\* rejects or returns no item the next call is the GET of the same URL;
\* (c) if that scrape fails too the parse failure is reported and nothing
\* is posted.  (A line the operator interrupts stops where it is.)
C7_FeedOrPage ==
    (BareLine /\ calls # <<>> /\ calls[1].op # "KeyboardInterrupt") =>
        /\ calls[1].op = "feed" /\ calls[1].url = cmd[1].u
        /\ calls[1].n >= 1 =>
               /\ Len(calls) = 1 /\ pc = "prompt" /\ sent = <<>>
               /\ last_rss_items # <<>> /\ Len(last_rss_items) <= calls[1].n
               /\ \A i \in DOMAIN last_rss_items :
                      last_rss_items[i] = feed_item(EntryAt(i))
               /\ last_event = pre[1].last_event
        /\ calls[1].n < 1 =>
               /\ Len(calls) = 1 => pc = "fetch" /\ v_url = <<cmd[1].u>>
               /\ Len(calls) > 1 =>
                      /\ calls[2].op \in {"get", "KeyboardInterrupt"}
                      /\ calls[2].url \in {cmd[1].u, NoUrl}
               /\ \A i \in CallsWhere(IsPipelineCall) : calls[i].url = cmd[1].u
               /\ (pc = "prompt" /\ ~Interrupted /\ CallsWhere(IsSynthesis) = {}) =>
                      /\ out = <<[tag |-> "failed_parse_url_not_rss", n |-> 0]>>
                      /\ CallsWhere(IsPublish) = {} /\ sent = <<>>
                      /\ last_event = pre[1].last_event
                      /\ last_rss_items = pre[1].last_rss_items

\* a bare URL whose feed was rejected and whose page was too short
C7_Witness ==
    /\ BareLine /\ pc = "prompt"
    /\ Len(calls) = 3
    /\ calls[1].op = "feed" /\ calls[1].n = -1
    /\ calls[3].op = "extract" /\ calls[3].n = 99
    /\ LastSaid = "failed_parse_url_not_rss"

\* the line at hand is a number, read when n >= 1 items were listed
NumberLine ==
    /\ prog = "interactive" /\ cmd # <<>> /\ cmd[1].k = "num"
    /\ pre # <<>> /\ pre[1].last_rss_items # <<>>
Listed == Len(pre[1].last_rss_items)

\* what an out-of-range selection leaves behind: the error naming 1-n, no
\* call, nothing sent, the session state as it was
RangeErrorOnly ==
    /\ pc = "prompt"
    /\ out = <<[tag |-> "invalid_article_number", n |-> Listed]>>
    /\ calls = <<>> /\ sent = <<>>
    /\ last_event = pre[1].last_event
    /\ last_rss_items = pre[1].last_rss_items

\* C8 as stated: with n >= 1 items listed, a line whose first token is an
\* integer outside 1..n (0, n + 1, and any other integer) reports the error
\* naming 1-n, calls no collaborator, and leaves last_event and
\* last_rss_items as they were.
C8_AsStated ==
    (NumberLine /\ (cmd[1].n < 1 \/ cmd[1].n > Listed)) => RangeErrorOnly

\* C8, amended: that holds of a first token made of digits only (0 and
\* every number above n); a negative integer is no number to the session
\* and is reported as an unknown command, also with no call and the session
\* state as it was.
C8_OutOfRangeSelection ==
    /\ (NumberLine /\ (cmd[1].n = 0 \/ cmd[1].n > Listed)) => RangeErrorOnly
    /\ (NumberLine /\ cmd[1].n < 0) =>
           /\ pc = "prompt"
           /\ out = <<[tag |-> "unknown_command", n |-> 0]>>
           /\ calls = <<>> /\ sent = <<>>
           /\ last_event = pre[1].last_event
           /\ last_rss_items = pre[1].last_rss_items

\* 16 typed when 15 items are listed and an event is held
C8_Witness ==
    /\ NumberLine /\ Listed = 15 /\ cmd[1].n = 16
    /\ last_event # <<>>
    /\ pc = "prompt" /\ LastSaid = "invalid_article_number"

\* the events analyze may return for a page scraped from the URL u
SynthesizedFor(u) ==
    {analyze_cli(extract(d, u)[1], llm_configured, l).ev[1] :
        d \in {x \in SessDocs : extract(x, u) # <<>>}, l \in SessLlm}

\* C9: with n >= 1 items listed, a line whose first token is an integer k in
\* 1..n runs the Fetcher, the Extractor and the Synthesizer on the link of
\* the k-th stored item and on nothing else; when the scrape succeeds
\* last_event is the synthesized event, and until then, and when the scrape
\* fails, last_event is what it was.
C9_InRangeSelection ==
    (NumberLine /\ 1 <= cmd[1].n /\ cmd[1].n <= Listed) =>
        LET link == pre[1].last_rss_items[cmd[1].n].link
            synthesized == CallsWhere(IsSynthesis) # {} /\ pc # "llm" /\ ~Interrupted
        IN  /\ flow = "select"
            /\ last_rss_items = pre[1].last_rss_items
            /\ pc = "fetch" => v_url = <<link>>
            /\ \A i \in DOMAIN calls :
                   \/ IsPipelineCall(calls[i]) /\ calls[i].url = link
                   \/ calls[i].op = "KeyboardInterrupt"
            /\ (pc = "prompt" /\ ~Interrupted) =>
                   \E i \in DOMAIN calls : calls[i].op = "get"
            /\ synthesized =>
                   /\ last_event # <<>>
                   /\ last_event[1] \in SynthesizedFor(link)
                   /\ last_event[1].source_url = link
            /\ ~synthesized => last_event = pre[1].last_event
            /\ LastSaid = "failed_scrape_article" =>
                   last_event = pre[1].last_event /\ CallsWhere(IsSynthesis) = {}

\* "15 json" typed when 15 items are listed and another event is held: the
\* 15th link was scraped and last_event replaced
C9_Witness ==
    /\ NumberLine /\ Listed = 15 /\ cmd[1].n = 15
    /\ pc = "prompt" /\ LastSaid = "tip"
    /\ pre[1].last_event # <<>>
    /\ last_event # pre[1].last_event
    /\ last_event[1].source_url = ItemUrl(15)

\* answers that are y or yes once trimmed, whatever their case
SaysYes == {"y", "yes", "Y", "YES", " y "}
PostLine == prog = "interactive" /\ cmd # <<>> /\ cmd[1].k = "word" /\ cmd[1].w \in {"post", "Post"}

\* C10: in the interactive post flow the Publisher is invoked only after the
\* operator answered y or yes (trimmed, in any case); any other answer is
\* reported as cancelled, sends nothing, is not dispatched as a command and
\* leaves the session state as it was.
C10_PostNeedsConfirmation ==
    PostLine =>
        /\ CallsWhere(IsPublish) # {} =>
               /\ answer # <<>> /\ answer[1] \in SaysYes
               /\ \A i \in CallsWhere(IsPublish) :
                      \E j \in 1..(i - 1) : calls[j].op = "confirm"
        /\ sent # <<>> => CallsWhere(IsPublish) # {}
        /\ (answer # <<>> /\ answer[1] \notin SaysYes) =>
               /\ pc = "prompt" /\ flow = "post"
               /\ out = <<[tag |-> "preview", n |-> 0], [tag |-> "cancelled", n |-> 0]>>
               /\ CallsWhere(IsPublish) = {} /\ sent = <<>>
               /\ last_event = pre[1].last_event
               /\ last_rss_items = pre[1].last_rss_items

\* the operator answered "exit" to the confirmation: cancelled, still in
\* the session
C10_Witness ==
    /\ PostLine /\ answer = <<"exit">>
    /\ pc = "prompt" /\ LastSaid = "cancelled"
    /\ last_event # <<>> /\ preview = <<payload_cli(last_event[1])>>

\* the line at hand is post, copy or c, read when no event was held
NoEventLine ==
    /\ prog = "interactive" /\ cmd # <<>> /\ cmd[1].k = "word"
    /\ cmd[1].w \in {"post", "Post", "copy", "c"}
    /\ pre # <<>> /\ pre[1].last_event = <<>>

\* C11: with last_event unset, post and copy / c report that there is no
\* event, ask for no confirmation, show no preview, call neither the
\* Publisher nor the clipboard writer, and leave the session state as it was.
C11_NoEventNoAction ==
    NoEventLine =>
        /\ pc = "prompt"
        /\ out = <<[tag |-> IF cmd[1].w \in {"post", "Post"} THEN "no_event_to_post"
                            ELSE "no_event_to_copy", n |-> 0]>>
        /\ calls = <<>> /\ sent = <<>> /\ preview = <<>> /\ answer = <<>>
        /\ last_event = <<>>
        /\ last_rss_items = pre[1].last_rss_items

\* "copy xml" typed with a feed listed and no event held
C11_Witness ==
    /\ NoEventLine /\ cmd = <<W("copy"), W("xml")>>
    /\ last_rss_items # <<>>
    /\ pc = "prompt" /\ LastSaid = "no_event_to_copy"

\* the reports of usage errors, failed scrapes and rejected feeds
FailureReports ==
    {"usage_scrape", "usage_rss", "failed_scrape_article", "failed_scrape_url",
     "failed_parse_url", "failed_parse_url_not_rss", "failed_parse_rss",
     "no_event_to_post", "no_event_to_copy", "invalid_article_number"}

\* a line of help, status, post, copy or an unknown command, a usage error,
\* a failed scrape or a rejected feed is over and the session state is what
\* it was when the line was read
FrameOfOtherLines ==
    (prog = "interactive" /\ pc = "prompt" /\ pre # <<>>
        /\ (flow \in {"help", "status", "post", "copy", "unknown"}
                \/ LastSaid \in FailureReports)) =>
        /\ last_event = pre[1].last_event
        /\ last_rss_items = pre[1].last_rss_items

\* a step that changes last_event is one at which analyze returned an event,
\* and it leaves last_rss_items alone; a step that changes last_rss_items is
\* one at which parse_rss returned a feed, and it leaves last_event alone
MutatingStep ==
    /\ last_event' # last_event =>
           /\ Len(calls') > Len(calls)
           /\ calls'[Len(calls')].op \in {"analyze", "llm"}
           /\ last_event' # <<>>
           /\ last_rss_items' = last_rss_items
    /\ last_rss_items' # last_rss_items =>
           /\ Len(calls') = Len(calls) + 1
           /\ calls'[Len(calls')].op = "feed" /\ calls'[Len(calls')].n >= 0
           /\ last_event' = last_event

\* C12: last_event changes only at a step where the Synthesizer returned an
\* event and last_rss_items only at a step where the Feed Reader returned a
\* feed; a successful scrape leaves last_rss_items unchanged, a successful
\* listing leaves last_event unchanged, and help, status, post, copy,
\* unknown commands, usage errors, failed scrapes and rejected feeds leave
\* both unchanged.
C12_MutatedOnlyBySuccess == []FrameOfOtherLines /\ [][MutatingStep]_vars

\* a scrape replaced the event held while a feed was listed, and the
\* listing is still there
C12_Witness ==
    /\ prog = "interactive" /\ flow = "scrape" /\ pc = "prompt"
    /\ pre[1].last_event # <<>> /\ last_event # pre[1].last_event
    /\ last_rss_items # <<>> /\ last_rss_items = pre[1].last_rss_items

\* C13: wherever inside a flow KeyboardInterrupt arrives, control is back at
\* the prompt and last_event and last_rss_items are what they were before
\* the interrupted line was dispatched.
C13_InterruptRestoresState ==
    (prog = "interactive" /\ Interrupted) =>
        /\ pc = "prompt"
        /\ last_event = pre[1].last_event
        /\ last_rss_items = pre[1].last_rss_items

\* the reports of the line at hand
Said == {out[i].tag : i \in DOMAIN out}

\* C14: in Publisher variant A (scraper.py) a POST is sent only right after
\* a GET /health that returned status 200; after any other health status,
\* or a health request that raised, the publish has failed and no POST is
\* sent, then or later.
C14_PostOnlyAfterHealthy ==
    prog = "scraper" =>
        /\ \A i \in DOMAIN calls :
               calls[i].op = "post" =>
                   i > 1 /\ calls[i - 1].op = "health" /\ calls[i - 1].n = 200
        /\ Len(sent) = Cardinality({i \in DOMAIN calls : calls[i].op = "post"})
        /\ \A i \in DOMAIN calls :
               (calls[i].op = "health" /\ calls[i].n # 200) =>
                   /\ i = Len(calls) /\ sent = <<>>
                   /\ pc = "exited"
                   /\ "failed_to_post" \in Said /\ "market_id" \notin Said

\* scraper.py --post met a health check answering 204 and sent nothing
C14_Witness ==
    /\ prog = "scraper" /\ pc = "exited"
    /\ calls # <<>> /\ calls[Len(calls)].op = "health" /\ calls[Len(calls)].n = 204
    /\ sent = <<>> /\ "failed_to_post" \in Said

\* the value of the first field present among id, market_id, event_id
FirstPresent(body) ==
    IF body.id # <<>> THEN body.id
    ELSE IF body.market_id # <<>> THEN body.market_id
    ELSE body.event_id

\* the POST of the finished flow was answered 200 with one of the three
\* fields in the object
PublishedWithId ==
    /\ pc \in {"prompt", "exited"} /\ received # <<>> /\ ~Interrupted
    /\ received[Len(received)].exc = "" /\ received[Len(received)].status = 200
    /\ FirstPresent(received[Len(received)].body) # <<>>

\* C15: for every successful publish response the identifier reported (by
\* the interactive post flow, and as the market id of scraper.py) is the
\* value of the first field present among id, market_id, event_id; with all
\* three present it is the id value, whatever that value is.
C15_FirstPresentIdReported ==
    PublishedWithId =>
        LET id == FirstPresent(received[Len(received)].body)[1]
        IN  /\ flow = "post" => out[Len(out)] = [tag |-> "posted_id", n |-> id]
            /\ flow = "scraper" => out[Len(out)] = [tag |-> "market_id", n |-> id]

\* "Will 'Example Domain' predictions come true?"
WILL_EXAMPLE_DOMAIN == <<"W", "i", "l", "l", " ", "'", "E", "x", "a", "m", "p", "l", "e", " ", "D", "o", "m", "a", "i", "n", "'", " ", "p", "r", "e", "d", "i", "c", "t", "i", "o", "n", "s", " ", "c", "o", "m", "e", " ", "t", "r", "u", "e", "?">>

\* the first n characters of a text, one by one
FirstChars(s, n) == [i \in 1..(IF Len(s) < n THEN Len(s) ELSE n) |-> s[i]]

\* C22: with no LLM configured, analyze of either file returns, for every
\* page and whatever the LLM would have answered or raised, the fallback
\* event: title "Will '" + the first 50 characters of the page title +
\* "' predictions come true?", description "Based on: " + the page title,
\* category general, options Yes, No, Partially, confidence 0.5 and the
\* page's url; the page titled Example Domain gets the title "Will 'Example
\* Domain' predictions come true?".
C22_UnconfiguredGivesFallback ==
    \A i \in 1..Len(an_out) :
        ~an_in.configured =>
            /\ an_out[i].res.st = "return"
            /\ LET e == an_out[i].res.ev[1]
                   t == an_in.scraped.title
               IN  /\ e.title = <<"W", "i", "l", "l", " ", "'">> \o FirstChars(t, 50)
                                    \o <<"'", " ">> \o SubSeq(WILL_EXAMPLE_DOMAIN, 23, 44)
                   /\ e.description = <<"B", "a", "s", "e", "d", " ", "o", "n", ":", " ">> \o t
                   /\ e.category = <<"g", "e", "n", "e", "r", "a", "l">>
                   /\ e.options = << <<"Y", "e", "s">>, <<"N", "o">>, <<"P", "a", "r", "t", "i", "a", "l", "l", "y">> >>
                   /\ e.confidence = 50
                   /\ e.source_url = an_in.scraped.url
                   /\ t = EXAMPLE_DOMAIN => e.title = WILL_EXAMPLE_DOMAIN

\* with no LLM configured, a page whose title has 51 characters got the
\* fallback title of its first 50, although the LLM would have answered
C22_Witness ==
    /\ an_out # <<>> /\ ~an_in.configured /\ an_in.llm.kind = "text"
    /\ Len(an_in.scraped.title) = 51
    /\ Len(an_out[1].res.ev[1].title) = 6 + 50 + 24
    /\ an_out[1].res.ev[1].options = <<YES, NO, PARTIALLY>>

\* C25: the confidence of every event analyze returns lies between 0 and 1
\* (0 and 100 hundredths), whatever the configured LLM answered.
C25_ConfidenceInUnitInterval ==
    \A i \in 1..Len(an_out) :
        an_out[i].res.st = "return" =>
            /\ 0 <= an_out[i].res.ev[1].confidence
            /\ an_out[i].res.ev[1].confidence <= 100

\* C31: on the same page and the same behaviour of the LLM, scraper.py's
\* analyze and cli.py's analyze both return an event and the two events are
\* equal on title, description, category, options, confidence and
\* source_url.
C31_SameSynthesis ==
    an_out # <<>> =>
        LET a == analyze_scraper(an_in.scraped, an_in.configured, an_in.llm)
            b == analyze_cli(an_in.scraped, an_in.configured, an_in.llm)
        IN  /\ a.st = b.st
            /\ an_out[1].res = (IF an_out[1].fn = "scraper" THEN a ELSE b)
            /\ a.st = "return" =>
                   \A k \in {"title", "description", "category", "options", "confidence",
                             "source_url"} : a.ev[1][k] = b.ev[1][k]

\* how many tokens c the text has from position i to position j
CountOf(text, c, i, j) == Cardinality({k \in i..j : text[k].c = c})

\* the tokens i..j are a balanced {...} span
Balanced(text, i, j) ==
    /\ i < j /\ text[i].c = "{" /\ text[j].c = "}"
    /\ CountOf(text, "{", i, j) = CountOf(text, "}", i, j)
    /\ \A k \in i..(j - 1) : CountOf(text, "{", i, k) > CountOf(text, "}", i, k)

BalancedSpans(text) ==
    {p \in (1..Len(text)) \X (1..Len(text)) : Balanced(text, p[1], p[2])}

\* the balanced span that starts first
FirstBalancedSpan(text) ==
    LET p == CHOOSE q \in BalancedSpans(text) : \A r \in BalancedSpans(text) : q[1] <= r[1]
    IN  SubSeq(text, p[1], p[2])

AnalyzeOf(fn, scraped, llm) ==
    IF fn = "scraper" THEN analyze_scraper(scraped, TRUE, llm)
    ELSE analyze_cli(scraped, TRUE, llm)

\* C32: what analyze parses of a response text is its first balanced {...}
\* span: the result is what that span alone gives, whatever follows it, and
\* a text with no "{" gives the fallback event.
C32_FirstBalancedSpan ==
    (an_out # <<>> /\ an_in.configured /\ an_in.llm.kind = "text") =>
        LET text == an_in.llm.text
            fn == an_out[1].fn
        IN  /\ CountOf(text, "{", 1, Len(text)) = 0 =>
                   an_out[1].res = Returned(DocumentedFallback(an_in.scraped, fn))
            /\ BalancedSpans(text) # {} =>
                   an_out[1].res = AnalyzeOf(fn, an_in.scraped, LlmText(FirstBalancedSpan(text)))

(***************************************************************************)
(* Claims about the Extractor (SpecExtract)                                *)
(***************************************************************************)
\* the visible text of the element the claim prefers: the article if there
\* is one, else the main element, else the body; no text with none of them
VisibleText(doc) ==
    IF doc.article # <<>> THEN doc.article[1]
    ELSE IF doc.main # <<>> THEN doc.main[1]
    ELSE IF doc.body # <<>> THEN doc.body[1]
    ELSE <<>>

\* C30: the Extractor returns a page exactly when the first 5000 characters
\* of the visible text of the preferred element (article, else main, else
\* body) are at least 100, and the page's content is those characters, of
\* length 100 to 5000.
C30_ContentOfPreferredElement ==
    ex_out # <<>> =>
        LET expected == FirstChars(VisibleText(ex_in.doc), 5000)
            res == ex_out[1].res
        IN  /\ res # <<>> <=> Len(expected) >= 100
            /\ res # <<>> =>
                   /\ res[1].content = expected
                   /\ 100 <= Len(res[1].content) /\ Len(res[1].content) <= 5000
                   /\ res[1].url = ex_in.url

\* a document with an article past the cut, a main element and a body gave
\* a page of the article's first 5000 characters
C30_Witness ==
    /\ ex_out # <<>> /\ ex_out[1].res # <<>>
    /\ ex_in.doc.article # <<>> /\ Len(ex_in.doc.article[1]) > 5000
    /\ ex_in.doc.main # <<>> /\ ex_in.doc.body # <<>>
    /\ Len(ex_out[1].res[1].content) = 5000
    /\ ex_out[1].res[1].content[1] = "a"

(***************************************************************************)
(* Claims about parse_rss (SpecFeed)                                       *)
(***************************************************************************)
\* the slice of the summary, or of the description standing in for it,
\* raises for the entry e
SliceRaises(e) ==
    \/ e.summary = <<NOT_A_STRING>>
    \/ e.summary = <<>> /\ e.description = <<NOT_A_STRING>>
SomeSliceRaises(p) == \E i \in DOMAIN p.entries : SliceRaises(p.entries[i])

\* C16: parse_rss returns no feed exactly when the parse sets the
\* malformed-document flag and yields no entry, or the parse or the mapping
\* of an entry raises; a malformed document with entries and a well-formed
\* document without entries both come back as feeds, with as many items as
\* entries.
C16_RejectsExactlyWhen ==
    rss_out # <<>> =>
        LET p == rss_in.parsed
            res == rss_out[1].res
        IN  /\ res = <<>> <=>
                   \/ p.raises
                   \/ p.bozo /\ Len(p.entries) = 0
                   \/ SomeSliceRaises(p)
            /\ res # <<>> => Len(res[1].items) = Len(p.entries)

\* a malformed document with two entries came back as a feed of two items
C16_Witness ==
    /\ rss_out # <<>> /\ rss_in.parsed.bozo /\ Len(rss_in.parsed.entries) = 2
    /\ rss_out[1].res # <<>> /\ Len(rss_out[1].res[1].items) = 2

\* the text an optional field of an entry holds, or the text d
FieldOr(f, d) == IF f = <<>> THEN d ELSE f[1]

\* what C29 says of the item made of the entry e, a missing title being
\* rendered as the text noTitle
ItemMadeOf(item, e, noTitle) ==
    /\ DOMAIN item = {"title", "link", "summary", "published"}
    /\ item.title = FieldOr(e.title, noTitle)
    /\ item.link = FieldOr(e.link, Url("", "", 0))
    /\ item.summary = FirstChars(FieldOr(e.summary, FieldOr(e.description, <<>>)), 200)
    /\ Len(item.summary) <= 200
    /\ item.published = FieldOr(e.published, <<>>)

ItemsMadeOfEntries(noTitle) ==
    (rss_out # <<>> /\ rss_out[1].res # <<>>) =>
        /\ Len(rss_out[1].res[1].items) = Len(rss_in.parsed.entries)
        /\ \A i \in DOMAIN rss_in.parsed.entries :
               ItemMadeOf(rss_out[1].res[1].items[i], rss_in.parsed.entries[i], noTitle)

\* C29 as stated: every field missing from the entry, the title too, is the
\* empty string
C29_AsStated == ItemsMadeOfEntries(<<>>)

\* C29: every entry of a feed parse_rss returns is made into an item with
\* title, link, summary and published all present; a missing summary takes
\* the description; a missing link, summary (with no description) or
\* published is the empty string and a missing title is "Untitled"; the
\* summary is the first 200 characters at most.
C29_ItemFields == ItemsMadeOfEntries(<<"U", "n", "t", "i", "t", "l", "e", "d">>)

\* an entry with a description of 200 characters and nothing else became an
\* item titled Untitled whose summary is the description
C29_Witness ==
    /\ rss_out # <<>> /\ rss_out[1].res # <<>>
    /\ \E i \in DOMAIN rss_in.parsed.entries :
           /\ rss_in.parsed.entries[i].title = <<>>
           /\ rss_in.parsed.entries[i].summary = <<>>
           /\ rss_out[1].res[1].items[i].title = UNTITLED
           /\ Len(rss_out[1].res[1].items[i].summary) = 200

(***************************************************************************)
(* Claims about scrape <url> and the listings (Spec)                       *)
(***************************************************************************)
CallsOf(op) == {i \in DOMAIN calls : calls[i].op = op}
Precede(a, b) == \A i \in CallsOf(a), j \in CallsOf(b) : i < j
ScrapeLine == prog = "interactive" /\ flow = "scrape" /\ cmd # <<>> /\ ~no_args(cmd)
RequestFailed(o) == o.exc # "" \/ (400 <= o.status /\ o.status < 600)

ItemAt(i) == [title |-> <<Letter(i)>>, link |-> ItemUrl(i), summary |-> <<"s">>,
              published |-> <<>>]
FirstItems(n) == [i \in 1..n |-> ItemAt(i)]

\* the line was rss <url> or a bare URL, the Feed Reader returned a feed of
\* m entries and the line is done
FeedLine(f, m) ==
    /\ prog = "interactive" /\ flow = f /\ pc = "prompt"
    /\ Len(calls) = 1 /\ calls[1].op = "feed" /\ calls[1].n = m

C18_Stored ==
    \A m \in 0..(RSS_CAP + ExtraEntries) :
        /\ FeedLine("rss", m) =>
               last_rss_items = FirstItems(IF m < RSS_CAP THEN m ELSE RSS_CAP)
        /\ (FeedLine("bare", m) /\ m >= 1) =>
               last_rss_items = FirstItems(IF m < BARE_CAP THEN m ELSE BARE_CAP)

C18_NextNumber ==
    (/\ \E m \in 1..(RSS_CAP + ExtraEntries) : FeedLine("rss", m) \/ FeedLine("bare", m)
     /\ flow' = "select" /\ cmd'[1].n > Len(last_rss_items))
        => /\ pc' = "prompt"
           /\ out' = <<[tag |-> "invalid_article_number", n |-> Len(last_rss_items)]>>
           /\ calls' = <<>>
           /\ UNCHANGED <<last_event, last_rss_items>>

\* C18: after rss <url> on a feed of m entries last_rss_items is the first
\* min(15, m) items of the feed, in feed order; after a bare URL that is a
\* feed of m >= 1 entries it is the first min(3, m); and a number typed next
\* that is greater than the stored count gets the range error and nothing
\* else.
C18_FirstItemsStored == []C18_Stored /\ [][C18_NextNumber]_vars

\* a bare URL was a feed of four entries, three were stored, and 4 typed
\* next was out of range
C18_Witness ==
    /\ prog = "interactive" /\ flow = "select" /\ pc = "prompt"
    /\ cmd = <<N(BARE_CAP + 1)>>
    /\ last_rss_items = FirstItems(BARE_CAP)
    /\ LastSaid = "invalid_article_number"

\* C19: in every state of the interactive session last_rss_items holds at
\* most 15 items, whatever the size of the feeds read.
C19_AtMostFifteen == prog = "interactive" => Len(last_rss_items) <= 15

\* a feed of more than 15 entries was listed and 15 items are stored
C19_Witness ==
    /\ FeedLine("rss", RSS_CAP + ExtraEntries)
    /\ Len(last_rss_items) = 15

(***************************************************************************)
(* Claims about paste (Spec)                                               *)
(***************************************************************************)
\* the line was paste, v or pv, the clipboard was read and the line is done
PasteLine(tag) ==
    /\ prog = "interactive" /\ flow = "paste" /\ pc = "prompt" /\ ~Interrupted
    /\ calls # <<>> /\ calls[1].op = "clip_read"
    /\ \E i \in DOMAIN out : out[i].tag = tag

\* what a bare URL line leaves behind when the Feed Reader answers with a
\* feed of m >= 1 items: the first three stored, nothing else called
AsBareFeed(m) ==
    /\ Len(calls) = 2
    /\ last_rss_items = FirstItems(IF m < BARE_CAP THEN m ELSE BARE_CAP)
    /\ last_event = pre[1].last_event

\* what a bare URL line leaves behind when the Feed Reader gives no feed or
\* an empty one: the page pipeline of a bare URL, the listing as it was
AsBarePage ==
    /\ \A i \in 3..Len(calls) : calls[i].op \in {"get", "extract", "analyze", "llm", "post"}
    /\ Len(calls) >= 3 /\ calls[3].op = "get"
    /\ Cardinality(CallsOf("post")) = (IF CallsOf("analyze") # {} THEN 1 ELSE 0)
    /\ CallsOf("analyze") = {} => last_event = pre[1].last_event /\ sent = <<>>
    /\ CallsOf("analyze") # {} =>
           /\ last_event # <<>> /\ last_event[1].source_url = PageUrl
           /\ Len(sent) = 1 /\ sent[1] = payload_cli(last_event[1])
    /\ last_rss_items = pre[1].last_rss_items

\* C20: paste with a clipboard text that starts with http:// or https://
\* leaves the session state, and makes the Feed Reader, Fetcher, Synthesizer
\* and Publisher calls, that the same text typed as a bare line does; with
\* any other text it says the clipboard holds no URL, calls nothing and
\* leaves the session state as it was.
C20_PasteAsBareLine ==
    /\ PasteLine("pasted") =>
           /\ Len(calls) >= 2 /\ calls[2].op = "feed" /\ calls[2].url = PageUrl
           /\ IF calls[2].n >= 1 THEN AsBareFeed(calls[2].n) ELSE AsBarePage
    /\ PasteLine("not_a_url") =>
           /\ Len(calls) = 1 /\ sent = <<>>
           /\ last_event = pre[1].last_event
           /\ last_rss_items = pre[1].last_rss_items

(***************************************************************************)
(* Claims about the end of the session and of the single-shot runs (Spec)  *)
(***************************************************************************)
Ended == pc \in {"exited", "crashed"}
ExitLine == cmd # <<>> /\ cmd[1].k = "word" /\ lower(cmd[1].w) \in {"exit", "quit", "q"}
EndOfInput ==
    \/ flow = "eof"
    \/ calls # <<>> /\ calls[Len(calls)].op = "confirm" /\ answer = <<>> /\ LastSaid = "goodbye"

C21_EndsOnExitOrEOF ==
    prog = "interactive" =>
        /\ Ended <=> (ExitLine \/ EndOfInput)
        /\ ExitLine => pc = "exited" /\ calls = <<>> /\ LastSaid = "goodbye"

\* C21: the interactive loop is over exactly when the line read was exit,
\* quit or q, whatever the session state, or the end of input was met at a
\* prompt; and once it is over nothing changes any more: no line is read and
\* no collaborator is called.
C21_EndsOnlyOnExitOrEOF == []C21_EndsOnExitOrEOF /\ [][~(prog = "interactive" /\ Ended)]_vars

SingleShotDone == prog # "interactive" /\ pc = "exited"
ScrapeFailedRun == CallsOf("analyze") = {}
PublishRequested == flags.post \/ prog = "cli_post"
PublishFailedRun ==
    \/ \E i \in CallsOf("health") : calls[i].n # 200
    \/ received # <<>> /\ RequestFailed(received[1])

\* C23: a single-shot run ends with exit status 1 when the scrape failed
\* (and then nothing was synthesized or published) and when a publish asked
\* for with --post or the post subcommand failed; it ends with 0 otherwise.
C23_ExitStatus ==
    SingleShotDone =>
        /\ exit_code = <<IF ScrapeFailedRun \/ (PublishRequested /\ PublishFailedRun)
                         THEN 1 ELSE 0>>
        /\ ScrapeFailedRun => CallsOf("llm") = {} /\ CallsOf("post") = {} /\ sent = <<>>

\* the interactive scrape or bare-URL line synthesized an event and its
\* auto-post failed
AutoPostFailed ==
    /\ prog = "interactive" /\ flow \in {"scrape", "bare"}
    /\ CallsOf("analyze") # {}
    /\ received # <<>> /\ RequestFailed(received[1])

C24_EventKept ==
    /\ AutoPostFailed =>
           /\ pc = "prompt"
           /\ \E i \in DOMAIN out : out[i].tag = "panel"
           /\ LastSaid = "could_not_post"
           /\ last_event # <<>>
           /\ sent[1].event.title = last_event[1].title
           /\ sent[1].event.description = last_event[1].description
           /\ sent[1].event.options = last_event[1].options
           /\ sent[1].event.source_url = last_event[1].source_url
    /\ (prog = "scraper" /\ flags.post /\ ~ScrapeFailedRun /\ PublishFailedRun) =>
           /\ pc = "exited"
           /\ v_event # <<>>
           /\ \E i \in DOMAIN out : out[i].tag = "failed_to_post"
           /\ LastSaid = IF flags.json THEN "json" ELSE "text"

C24_LaterPost ==
    (AutoPostFailed /\ flow' = "post")
        => /\ pc' = "confirm"
           /\ preview' = <<sent[1]>>
           /\ UNCHANGED <<last_event, last_rss_items>>

\* C24: when an event was synthesized and the Publisher then fails on an
\* unreachable API, a timeout or an error status, the event is still
\* rendered and the failure reported; in the interactive scrape and bare-URL
\* flows the session goes on at the prompt with last_event equal to the
\* event that was sent, and a post typed next previews that same payload;
\* scraper.py still prints the event.
C24_SynthesisSurvivesPublishFailure == []C24_EventKept /\ [][C24_LaterPost]_vars

\* a bare URL was synthesized with no event held before, the API answered
\* 500, and the session is at the prompt with the new event
C24_Witness ==
    /\ AutoPostFailed /\ flow = "bare" /\ pc = "prompt"
    /\ received[1].status = 500
    /\ pre[1].last_event = <<>> /\ last_event # <<>>
    /\ LastSaid = "could_not_post"

(***************************************************************************)
(* Claims about the Publisher's requests (Spec)                            *)
(***************************************************************************)
\* the event the Publisher was called with
PublishedEvent == IF prog = "interactive" THEN last_event[1] ELSE v_event[1]
SixFields == {"title", "description", "category", "options", "confidence", "source_url"}

\* C26: the event object of every payload sent carries the event it was
\* built from: in variant A (scraper.py) all seven fields, resolution_date
\* included, in variant B (cli.py) the six fields other than
\* resolution_date, each equal to the event's; and source.url is the
\* event's source_url.
C26_PayloadCarriesEvent ==
    \A i \in DOMAIN sent :
        LET e == PublishedEvent
            p == sent[i]
        IN  /\ \A k \in SixFields : p.event[k] = e[k]
            /\ p.source.url = e.source_url
            /\ IF prog = "scraper"
               THEN /\ DOMAIN p.event = SixFields \cup {"resolution_date"}
                    /\ p.event.resolution_date = e.resolution_date
               ELSE /\ DOMAIN p.event = SixFields
                    /\ DOMAIN e \ DOMAIN p.event \subseteq {"resolution_date"}

\* scraper.py --post sent the fallback event, its three options and its
\* resolution date in the payload
C26_Witness ==
    /\ prog = "scraper" /\ sent # <<>>
    /\ sent[1].event.options = <<YES, NO, PARTIALLY>>
    /\ sent[1].event.resolution_date = DEFAULT_DATE
    /\ sent[1].source.url = PageUrl

Keywords == {"exit", "quit", "q", "help", "status", "scrape", "rss", "post", "copy", "c", "paste", "v", "pv"}

\* the line read is no selection that applies, starts with no keyword and
\* with neither http:// nor https://
NoCommandLine ==
    /\ prog = "interactive" /\ cmd # <<>>
    /\ ~(cmd[1].k = "num" /\ cmd[1].n >= 0 /\ pre[1].last_rss_items # <<>>)
    /\ ~(cmd[1].k = "word" /\ lower(cmd[1].w) \in Keywords)
    /\ ~(cmd[1].k = "url" /\ cmd[1].u.scheme \in {"http://", "https://"})

C33_PublisherOnlyAtFourPoints ==
    prog = "interactive" =>
        /\ pc = "post" => flow \in {"scrape", "bare", "paste", "post"}
        /\ \A i \in CallsOf("post") :
               /\ i > 1
               /\ IF flow = "post"
                  THEN calls[i - 1].op = "confirm" /\ answer # <<>> /\ answer[1] \in SaysYes
                  ELSE /\ flow \in {"scrape", "bare", "paste"}
                       /\ calls[i - 1].op = (IF llm_configured THEN "llm" ELSE "analyze")
        /\ Cardinality(CallsOf("post")) <= 1
        /\ Len(sent) = Cardinality(CallsOf("post"))
        /\ flow \notin {"scrape", "bare", "paste", "post"} => sent = <<>>

\* a pasted page URL was synthesized with the LLM and posted once, right
\* after the LLM call
C33_Witness ==
    /\ prog = "interactive" /\ flow = "paste" /\ pc = "prompt"
    /\ Len(sent) = 1 /\ Len(calls) >= 2
    /\ calls[Len(calls)].op = "post" /\ calls[Len(calls) - 1].op = "llm"

PostAnswered2xx ==
    /\ received # <<>> /\ received[1].exc = ""
    /\ 200 <= received[1].status /\ received[1].status < 300
    /\ pc \in {"prompt", "exited"} /\ ~Interrupted
FailureTags == {"could_not_post", "failed_post", "failed_to_post", "status_failed", "blockchain_error"}
SuccessTags == {"posted", "posted_id", "status_posted", "market_id"}

\* C34: when the POST was answered with a 2xx status, the front-end reports
\* the publish as done and never as failed, whatever the object of the
\* response holds.
C34_SuccessReportedOn2xx ==
    PostAnswered2xx =>
        /\ \A i \in DOMAIN out : out[i].tag \notin FailureTags
        /\ \E i \in DOMAIN out : out[i].tag \in SuccessTags

(***************************************************************************)
(* Claims about last_event (Spec)                                          *)
(***************************************************************************)
\* the line at hand has called analyze and analyze has returned
SynthesisDone ==
    /\ CallsOf("analyze") # {}
    /\ llm_configured => CallsOf("llm") # {}

C35_Held ==
    prog = "interactive" =>
        /\ last_event # <<>> =>
               /\ Len(last_event) = 1
               /\ SixFields \subseteq DOMAIN last_event[1]
               /\ Len(last_event[1].options) >= 1
        /\ IF SynthesisDone
           THEN \E i \in CallsOf("analyze") :
                    /\ last_event # <<>>
                    /\ last_event[1].source_url = calls[i].url
                    /\ last_event[1] \in SynthesizedFor(calls[i].url)
           ELSE pre # <<>> => last_event = pre[1].last_event

C35_Kept ==
    (prog = "interactive" /\ last_event # <<>>) =>
        /\ last_event' # <<>>
        /\ last_event' # last_event => SynthesisDone'

\* C35: in the interactive session last_event, once set, is never unset; it
\* always holds an event with every field of the model, and that event is
\* the one of the latest line whose synthesis returned.
C35_LastEventNeverUnset == []C35_Held /\ [][C35_Kept]_vars

\* an event is held from an earlier line and a later scrape that failed
\* left it in place
C35_Witness ==
    /\ prog = "interactive" /\ flow = "scrape" /\ pc = "prompt"
    /\ LastSaid = "failed_scrape_url"
    /\ pre[1].last_event # <<>> /\ last_event = pre[1].last_event

\* a flow that shows the payload before it posts
PreviewingFlow ==
    flow = "post" \/ flow = "cli_post" \/ (flow = "cli_scrape" /\ flags.post)

\* C36: in the interactive post flow, in scrape --post and in the post
\* subcommand, the payload that was previewed and the payload that is then
\* sent are the same, field for field.
C36_PreviewIsWhatIsSent ==
    (PreviewingFlow /\ sent # <<>>) =>
        /\ Len(preview) = 1 /\ Len(sent) = 1
        /\ DOMAIN sent[1] = DOMAIN preview[1]
        /\ DOMAIN sent[1].event = DOMAIN preview[1].event
        /\ sent[1].source.domain = preview[1].source.domain
        /\ sent[1].source.url = preview[1].source.url
        /\ \A k \in DOMAIN sent[1].event : sent[1].event[k] = preview[1].event[k]

\* the post subcommand previewed the payload, the operator said yes and the
\* payload was sent
C36_Witness ==
    /\ prog = "cli_post" /\ ~flags.yes /\ answer # <<>>
    /\ Len(sent) = 1 /\ Len(preview) = 1
    /\ sent[1].event.options = <<YES, NO, PARTIALLY>>

====
